---- MODULE Spec2Model ----
(***************************************************************************)
(* Signal-to-order reconciliation pipeline of the Bitget trading scripts.  *)
(*                                                                         *)
(* Two entry points are modelled against one exchange account:             *)
(*   - the timer-driven trading loop of MASTER.js (setInterval, placeTrade,*)
(*     closeOpposingPositions, closeOpenPositions, cancelAllOrders);       *)
(*   - the POST /webhook handler of test.js (manageTradingAssets,          *)
(*     closeOpenPositions, futuresCancelAllOrders, placeTrade).            *)
(*                                                                         *)
(* Every awaited exchange call is one atomic step at the exchange that     *)
(* either takes effect and resolves, or rejects (throws) without effect;   *)
(* between two awaits of one invocation other invocations and order fills  *)
(* may interleave.  Code between two awaits runs in the same step.         *)
(***************************************************************************)
EXTENDS Integers, Sequences, FiniteSets, TLC

\* Number of invocation frames: trading-loop callbacks, webhook requests.
MaxCycles == 2

Cycles == 1..MaxCycles

\* Most pending orders of one side the book takes before submits are refused a step.
MaxOrders == 2

\* MASTER.js:115 (const ticker); a second symbol stands for the rest of the account.
Ticker == "SBTCSUSDT"
OtherSymbol == "SETHSUSDT"

\* The margin coin of the product, and a second one for a further entry of
\* the same symbol and holdSide in the position list.
MarginCoin == "SUSDT"
OtherMarginCoin == "SUSDC"
MarginCoins == {MarginCoin, OtherMarginCoin}

Sides == {"buy", "sell"}
HoldSides == {"long", "short"}

VARIABLES
    positions,  \* exchange: open positions, a set of [symbol, holdSide, marginCoin]
    orders,     \* exchange: number of pending Ticker orders per side
    cyc,        \* one record per trading-loop invocation (MASTER.js)
    req,        \* one record per POST /webhook request (test.js)
    ev,         \* a signal evaluation on its own (MASTER.js, part_001)
    trade,      \* placeTrade from its risk levels to the submitted order
    errorLogged, \* the trading loop has written a console.error line
    closer,     \* a closeOpenPositions / closeOpposingPositions pass of a variant
    tick,       \* one firing of a signal consumer: a ws update or a timer tick
    boot,       \* the process from `node MASTER.js` on
    be,         \* adjustStopLossToBreakEven: its poll, timers and bookkeeping
    plans,      \* exchange: the plan (TP/SL) orders of Ticker, in list order
    quote,      \* exchange: unrealised PnL and break-even price of the position
    tpo         \* calculateTPOrders and the interval that calls it

\* The state of the script variants modelled apart from the two pipelines.
variantVars == <<closer, tick, boot, be, plans, quote, tpo>>

vars == <<positions, orders, cyc, req, ev, trade, errorLogged, variantVars>>

----------------------------------------------------------------------------
(* Helpers on snapshots *)

Min(S) == CHOOSE x \in S : \A y \in S : x <= y

\* One entry of getFuturesPositions(...).data.  The scripts read symbol and
\* holdSide only; the exchange lists one entry per margin coin as well, so a
\* symbol can have several entries of one holdSide.
PositionIn(sym, hs, coin) == [symbol |-> sym, holdSide |-> hs, marginCoin |-> coin]

Position(sym, hs) == PositionIn(sym, hs, MarginCoin)

AllPositions == << Position(OtherSymbol, "long"), Position(OtherSymbol, "short"),
                   Position(Ticker, "long"), Position(Ticker, "short"),
                   PositionIn(Ticker, "long", OtherMarginCoin),
                   PositionIn(Ticker, "short", OtherMarginCoin) >>

\* getFuturesPositions({productType}).data: every open position of the account.
PositionsData == SelectSeq(AllPositions, LAMBDA e : e \in positions)

\* getFuturesPositions({productType, marginCoin}).data: the positions of one
\* margin coin.
PositionsOfCoin(coin) == SelectSeq(PositionsData, LAMBDA e : e.marginCoin = coin)

\* getFuturesPosition({symbol, productType, marginCoin}).data: the positions
\* of one symbol and margin coin.
PositionOf(sym, coin) ==
    SelectSeq(PositionsData, LAMBDA e : e.symbol = sym /\ e.marginCoin = coin)

\* futuresFlashClosePositions({symbol, holdSide, productType}) closes every
\* position of the symbol on that side.
FlashClosed(sym, hs) == {e \in positions : ~(e.symbol = sym /\ e.holdSide = hs)}

Order(sym, s) == [symbol |-> sym, side |-> s]

Repeat(x, n) == [i \in 1..n |-> x]

\* getFuturesOpenOrders({symbol, productType}).data.entrustedList
EntrustedList == Repeat(Order(Ticker, "buy"), orders["buy"])
                 \o Repeat(Order(Ticker, "sell"), orders["sell"])

\* holdSide (side === 'buy' ? 'long' : 'short')
HoldSideOf(side) == IF side = "buy" THEN "long" ELSE "short"

\* opposingSide = side === 'buy' ? 'short' : 'long'
OpposingSide(side) == IF side = "buy" THEN "short" ELSE "long"

\* position.holdSide === opposingSide && position.symbol === symbol
IsOpposingPosition(position, symbol, side) ==
    position.holdSide = OpposingSide(side) /\ position.symbol = symbol

\* order.side !== side && order.symbol === symbol
IsOpposingOrder(order, symbol, side) ==
    order.side # side /\ order.symbol = symbol

\* A slip in the duplicate check: the position's holdSide compared with the
\* order side itself ('long' is never 'buy').
ExistingPositionBySide(list, symbol, side) ==
    \E j \in DOMAIN list : list[j].holdSide = side /\ list[j].symbol = symbol

\* positions.find(pos => pos.holdSide === (side === 'buy' ? 'long' : 'short') && pos.symbol === symbol)
ExistingPosition(list, symbol, side) ==
    \E j \in DOMAIN list :
        list[j].holdSide = HoldSideOf(side) /\ list[j].symbol = symbol

\* pendingOrders.find(order => order.side === side && order.symbol === symbol)
ExistingOrder(list, symbol, side) ==
    \E j \in DOMAIN list : list[j].side = side /\ list[j].symbol = symbol

\* The for-of loops await only inside the if: the index of the next entry,
\* from `from` on, whose body awaits (Len+1 when the loop is over).
NextOpposingPosition(list, from, symbol, side) ==
    LET M == {j \in from..Len(list) : IsOpposingPosition(list[j], symbol, side)}
    IN  IF M = {} THEN Len(list) + 1 ELSE Min(M)

NOpposingPositions(list, symbol, side) ==
    Cardinality({j \in DOMAIN list : IsOpposingPosition(list[j], symbol, side)})

NOpposingOrders(list, symbol, side) ==
    Cardinality({j \in DOMAIN list : IsOpposingOrder(list[j], symbol, side)})

NextOpposingOrder(list, from, symbol, side) ==
    LET M == {j \in from..Len(list) : IsOpposingOrder(list[j], symbol, side)}
    IN  IF M = {} THEN Len(list) + 1 ELSE Min(M)

----------------------------------------------------------------------------
(* The call log of one invocation: <<call, line, outcome>> in issue order,
   line being the source line of the await. *)

Logged(log, call, line, res) == Append(log, <<call, line, res>>)

CallIdx(log, call) == {j \in DOMAIN log : log[j][1] = call}

NCalls(log, call) == Cardinality(CallIdx(log, call))

Called(log, call, line, res) == \E j \in DOMAIN log : log[j] = <<call, line, res>>

CalledAt(log, line) == \E j \in DOMAIN log : log[j][2] = line

Threw(log, call) == \E j \in DOMAIN log : log[j][1] = call /\ log[j][3] = "throw"

Outcomes == {"ok", "throw"}

----------------------------------------------------------------------------
(* JavaScript numbers.  A value is undefined, null, NaN, an infinity or a
   finite number kept as an exact fraction <<"rat", n, d>> in lowest terms;
   the doubles of the scripts differ from it below 1e-15 relative. *)

Undefined == <<"undefined", "">>
Null == <<"null">>
NaN == <<"NaN">>
Infinity == <<"Infinity">>
NegInfinity == <<"-Infinity">>

Abs(n) == IF n < 0 THEN -n ELSE n

RECURSIVE GCD(_, _)
GCD(a, b) == IF b = 0 THEN a ELSE GCD(b, a % b)

Rat(n, d) ==
    LET g == GCD(Abs(n), Abs(d))
        s == IF d < 0 THEN -1 ELSE 1
    IN  <<"rat", (s * n) \div g, (s * d) \div g>>

Whole(n) == <<"rat", n, 1>>

IsRat(v) == v[1] = "rat"

\* ToNumber: null is 0, undefined is NaN.
ToNumber(v) == IF v = Null THEN Whole(0) ELSE IF v = Undefined THEN NaN ELSE v

\* -1, 0 or 1 for a number that is not NaN.
Sign(a) ==
    IF a = Infinity THEN 1
    ELSE IF a = NegInfinity THEN -1
    ELSE IF a[2] > 0 THEN 1 ELSE IF a[2] < 0 THEN -1 ELSE 0

Signed(s) == IF s > 0 THEN Infinity ELSE NegInfinity

JsNeg(x) ==
    LET a == ToNumber(x) IN
    IF a = NaN THEN NaN
    ELSE IF IsRat(a) THEN <<"rat", -a[2], a[3]>>
    ELSE Signed(-Sign(a))

JsAdd(x, y) ==
    LET a == ToNumber(x)
        b == ToNumber(y)
    IN  IF a = NaN \/ b = NaN THEN NaN
        ELSE IF IsRat(a) /\ IsRat(b)
        THEN LET g == GCD(a[3], b[3])
             IN  Rat(a[2] * (b[3] \div g) + b[2] * (a[3] \div g),
                     (a[3] \div g) * b[3])
        ELSE IF IsRat(a) THEN b
        ELSE IF IsRat(b) THEN a
        ELSE IF a = b THEN a ELSE NaN

JsSub(x, y) == JsAdd(x, JsNeg(y))

JsMul(x, y) ==
    LET a == ToNumber(x)
        b == ToNumber(y)
    IN  IF a = NaN \/ b = NaN THEN NaN
        ELSE IF IsRat(a) /\ IsRat(b)
        THEN LET g == GCD(Abs(a[2]), b[3])
                 h == GCD(Abs(b[2]), a[3])
             IN  Rat((a[2] \div g) * (b[2] \div h), (a[3] \div h) * (b[3] \div g))
        ELSE IF Sign(a) * Sign(b) = 0 THEN NaN
        ELSE Signed(Sign(a) * Sign(b))

JsDiv(x, y) ==
    LET a == ToNumber(x)
        b == ToNumber(y)
    IN  IF a = NaN \/ b = NaN THEN NaN
        ELSE IF IsRat(b)
        THEN IF b[2] = 0
             THEN IF Sign(a) = 0 THEN NaN ELSE Signed(Sign(a))
             ELSE IF IsRat(a) THEN JsMul(a, Rat(b[3], b[2]))
             ELSE Signed(Sign(a) * Sign(b))
        ELSE IF IsRat(a) THEN Whole(0) ELSE NaN

\* x < y: false as soon as one side is NaN.
JsLess(x, y) ==
    LET a == ToNumber(x)
        b == ToNumber(y)
    IN  IF a = NaN \/ b = NaN THEN FALSE
        ELSE IF IsRat(a) /\ IsRat(b)
        THEN LET g == GCD(a[3], b[3])
             IN  a[2] * (b[3] \div g) < b[2] * (a[3] \div g)
        ELSE IF IsRat(a) THEN b = Infinity
        ELSE IF IsRat(b) THEN a = NegInfinity
        ELSE a = NegInfinity /\ b = Infinity

JsGreater(x, y) == JsLess(y, x)

\* x <= y: false as soon as one side is NaN.
JsAtMost(x, y) == ToNumber(x) # NaN /\ ToNumber(y) # NaN /\ ~JsLess(y, x)

\* Math.max, Math.min, Math.abs on numbers that are not NaN.
MathMax(x, y) == IF JsLess(x, y) THEN y ELSE x
MathMin(x, y) == IF JsLess(y, x) THEN y ELSE x
MathAbs(x) == IF JsLess(x, Whole(0)) THEN JsNeg(x) ELSE x

\* Math.round (halves go up) and Math.floor of a finite number.
MathRound(x) == Whole((2 * x[2] + x[3]) \div (2 * x[3]))
MathFloor(x) == Whole(x[2] \div x[3])

\* Math.round of a double that lies a hair below the fraction x: a half goes down.
MathRoundTiesDown(x) == Whole(-((x[3] - 2 * x[2]) \div (2 * x[3])))

\* array.reduce((sum, v) => sum + v, 0)
RECURSIVE Sum(_)
Sum(s) == IF Len(s) = 0 THEN Whole(0)
          ELSE JsAdd(Sum(SubSeq(s, 1, Len(s) - 1)), s[Len(s)])

\* array[array.length - 1]
LastOf(s) == IF Len(s) = 0 THEN Undefined ELSE s[Len(s)]

\* array.slice(0, n)
Slice0(s, n) == SubSeq(s, 1, IF n < Len(s) THEN n ELSE Len(s))

----------------------------------------------------------------------------
(* Candles and indicators (part_001; MASTER.js for the Market Cipher ones) *)

\* A candle is [timestamp, open, high, low, close, volume]: JavaScript
\* index k is position k + 1 here.
Open(candle) == candle[2]
High(candle) == candle[3]
Low(candle) == candle[4]
Close(candle) == candle[5]
Volume(candle) == candle[6]

Closes(candles) == [i \in 1..Len(candles) |-> Close(candles[i])]

RECURSIVE EmaLoop(_, _, _, _)
EmaLoop(candles, multiplier, i, ema) ==
    IF i >= Len(candles) THEN ema
    ELSE LET prev == ema[Len(ema)]
             close == Close(candles[i + 1])
         IN  EmaLoop(candles, multiplier, i + 1,
                     Append(ema, JsAdd(JsMul(JsSub(close, prev), multiplier), prev)))

calculateEMA(candles, period) ==
    LET multiplier == JsDiv(Whole(2), Whole(period + 1))
        sma == JsDiv(Sum(Closes(Slice0(candles, period))), Whole(period))
    IN  EmaLoop(candles, multiplier, period, <<sma>>)

TypicalPrice(candle) ==
    JsDiv(JsAdd(JsAdd(High(candle), Low(candle)), Close(candle)), Whole(3))

calculateVWAP(candles) ==
    [i \in 1..Len(candles) |->
        JsDiv(Sum([j \in 1..i |-> JsMul(TypicalPrice(candles[j]), Volume(candles[j]))]),
              Sum([j \in 1..i |-> Volume(candles[j])]))]

\* gains and losses of calculateRSI.
Changes(candles) ==
    [i \in 1..(IF Len(candles) = 0 THEN 0 ELSE Len(candles) - 1) |->
        JsSub(Close(candles[i + 1]), Close(candles[i]))]

Gains(candles) ==
    LET ch == Changes(candles) IN [i \in DOMAIN ch |-> MathMax(ch[i], Whole(0))]

Losses(candles) ==
    LET ch == Changes(candles) IN [i \in DOMAIN ch |-> MathAbs(MathMin(ch[i], Whole(0)))]

calculateRSI(candles, period) ==
    LET gains == Gains(candles)
        losses == Losses(candles)
        avgGain == JsDiv(Sum(Slice0(gains, period)), Whole(period))
        avgLoss == JsDiv(Sum(Slice0(losses, period)), Whole(period))
    IN  [i \in DOMAIN gains |->
            IF i - 1 < period - 1 THEN Null
            ELSE LET rs == JsDiv(JsAdd(avgGain, gains[i]), JsAdd(avgLoss, losses[i]))
                 IN  JsSub(Whole(100), JsDiv(Whole(100), JsAdd(Whole(1), rs)))]

\* What the evaluators hand to the loop; reading [4] of the undefined last
\* element of an empty array is a TypeError.
Signals(buy, sell, price) ==
    [error |-> "none", buySignal |-> buy, sellSignal |-> sell, latestPrice |-> price]

TypeError ==
    [error |-> "TypeError", buySignal |-> FALSE, sellSignal |-> FALSE,
     latestPrice |-> Undefined]

\* The sell condition reduced to its RSI test.
SellSignalOnRsiOnly(latestPrice, ema9, ema21, latestRSI, latestVWAP) ==
    JsGreater(latestRSI, Whole(30))

BuySignal(latestPrice, ema9, ema21, latestRSI, latestVWAP) ==
    /\ JsGreater(latestPrice, ema9)
    /\ JsGreater(ema9, ema21)
    /\ JsLess(latestRSI, Whole(70))
    /\ JsGreater(latestPrice, latestVWAP)

SellSignal(latestPrice, ema9, ema21, latestRSI, latestVWAP) ==
    /\ JsLess(latestPrice, ema9)
    /\ JsLess(ema9, ema21)
    /\ JsGreater(latestRSI, Whole(30))
    /\ JsLess(latestPrice, latestVWAP)

\* part_001 calculateTradingSignals.  stopLoss and takeProfit, derived from
\* calculateATR, are returned too; no caller reads them and computing them
\* cannot throw.
calculateTradingSignals(candles) ==
    IF Len(candles) = 0 THEN TypeError
    ELSE LET ema9 == LastOf(calculateEMA(candles, 9))
             ema21 == LastOf(calculateEMA(candles, 21))
             latestVWAP == LastOf(calculateVWAP(candles))
             latestRSI == LastOf(calculateRSI(candles, 14))
             latestPrice == Close(candles[Len(candles)])
         IN  Signals(BuySignal(latestPrice, ema9, ema21, latestRSI, latestVWAP),
                     SellSignal(latestPrice, ema9, ema21, latestRSI, latestVWAP),
                     latestPrice)

\* MASTER.js: hlc3 is (candle[1] + candle[2] + candle[3]) / 3.
Hlc3(candles) ==
    [i \in 1..Len(candles) |->
        JsDiv(JsAdd(JsAdd(Open(candles[i]), High(candles[i])), Low(candles[i])), Whole(3))]

calculateMoneyFlow(hlc3) ==
    [i \in 1..Len(hlc3) |->
        IF i = 1 THEN Whole(0)
        ELSE IF JsGreater(hlc3[i], hlc3[i - 1]) THEN Whole(1) ELSE Whole(-1)]

calculateStochasticRSI(candles) ==
    [i \in 1..Len(candles) |->
        JsDiv(JsSub(Close(candles[i]), Open(candles[i])),
              JsSub(High(candles[i]), Open(candles[i])))]

\* MASTER.js calculateMarketCipherSignals.  With no candle the comparisons
\* on undefined are false and the && chains stop before candles[-1][4]; the
\* return statement then reads it.
calculateMarketCipherSignals(candles) ==
    IF Len(candles) = 0 THEN TypeError
    ELSE LET moneyFlow == LastOf(calculateMoneyFlow(Hlc3(candles)))
             stochasticRSI == LastOf(calculateStochasticRSI(candles))
             ema == LastOf(calculateEMA(candles, 9))
             close == Close(candles[Len(candles)])
         IN  Signals(/\ JsGreater(moneyFlow, Whole(0))
                     /\ JsLess(stochasticRSI, Rat(2, 10))
                     /\ JsGreater(close, ema),
                     /\ JsLess(moneyFlow, Whole(0))
                     /\ JsGreater(stochasticRSI, Rat(8, 10))
                     /\ JsLess(close, ema),
                     close)

\* The loop's branch on the signals: placeTrade for the side
\* `signals.buySignal ? 'buy' : 'sell'`, the catch, or nothing.
LoopBranchAlwaysTrades(signals) ==
    IF signals.error # "none" THEN "caught"
    ELSE IF signals.buySignal THEN "buy" ELSE "sell"

LoopBranch(signals) ==
    IF signals.error # "none" THEN "caught"
    ELSE IF signals.buySignal \/ signals.sellSignal
    THEN IF signals.buySignal THEN "buy" ELSE "sell"
    ELSE "noAction"

----------------------------------------------------------------------------
(* State *)

\* Besides the program counter, the signal and the loop state (list, i), an
\* invocation keeps what the properties read: the call log, how placeTrade
\* ended, the Ticker positions and pending sides when it was entered, what
\* the reconcile snapshots held (seenPos, seenOrd: opposing entries), the
\* opposing orders on the book when line 227 fetched them (bookOrd), the
\* sides whose orders a cancel-all took off the book, what was outstanding
\* when futuresSubmitOrder was called, and the invocations in flight when it
\* started.  fetched and signals are what the candle fetches and the
\* evaluator gave this tick, script the file whose placeTrade runs.
IdleCycle ==
    [pc |-> "idle", script |-> "MASTER.js", side |-> "none", list |-> <<>>,
     i |-> 0, log |-> <<>>,
     result |-> "none", startPos |-> {}, startOrd |-> {}, seenPos |-> 0,
     seenOrd |-> 0, bookOrd |-> 0, cancelled |-> {}, atSubmit |-> {}, during |-> {},
     fetched |-> "none", k |-> 0,
     signals |-> Signals(FALSE, FALSE, Undefined)]

\* A request: the JSON body, the loop state of closeOpenPositions, the call
\* log, the HTTP status answered (0: none yet) and the Ticker positions open
\* when the request came in.
IdleRequest ==
    [pc |-> "idle", script |-> "test.js", body |-> <<>>, list |-> <<>>,
     i |-> 0, log |-> <<>>, status |-> 0, startPos |-> {}]

\* An evaluation: the script, the candle array as a sequence of shape names,
\* what the evaluator returned and the branch the loop took on it.
IdleEval ==
    [pc |-> "idle", script |-> "none", candles |-> <<>>,
     signals |-> Signals(FALSE, FALSE, Undefined), branch |-> "none"]

\* placeTrade past its duplicate checks: script, side and price of the
\* signal, the two preset prices computed, the order object handed to
\* futuresSubmitOrder and the call log.
IdleTrade ==
    [pc |-> "idle", script |-> "none", side |-> "none", price |-> Whole(0),
     takeProfitPrice |-> Whole(0), stopLossPrice |-> Whole(0),
     order |-> [symbol |-> "none"], log |-> <<>>]

\* A request or signal of a variant, from its close pass to the order: the
\* script, the side and leverage of the request or signal, the positions
\* snapshot and the loop index, the snapshot and index of the
\* closeOpenPositions() it calls (part_000), the pending orders and their
\* index, the calls issued, how the close pass ended (result), how placeTrade
\* ended and the status the webhook answered with (0: none).
IdleCloser ==
    [pc |-> "idle", script |-> "none", side |-> "none", leverage |-> Undefined,
     list |-> <<>>, i |-> 0,
     inner |-> <<>>, j |-> 0, pending |-> <<>>, k |-> 0,
     log |-> <<>>, result |-> "none", ended |-> "none", status |-> 0]

\* One firing of a signal consumer: the script, the index of the timeframe
\* being fetched and what the fetches so far gave, the flags and price
\* part_004 gathers over its timeframes, the signals evaluated, the side and
\* price handed on, the POST or placeTrade calls made and how the firing ended.
IdleTick ==
    [pc |-> "idle", script |-> "none", k |-> 0, seen |-> <<>>,
     activeBuySignal |-> FALSE, activeSellSignal |-> FALSE,
     latestPrice |-> Whole(0), signals |-> Signals(FALSE, FALSE, Undefined),
     side |-> "none", price |-> Undefined, calls |-> <<>>, ended |-> "none"]

\* The process: its environment, the clients constructed, the port the HTTP
\* server listens on ("none": not listening), the timers and pending
\* callbacks armed, the exchange calls each has made, and the exit code.
IdleBoot ==
    [pc |-> "none", env |-> [API_KEY |-> Undefined, API_SECRET |-> Undefined,
                             API_PASSPHRASE |-> Undefined, PORT |-> Undefined],
     clients |-> {}, listening |-> "none", timers |-> {},
     calls |-> [source \in {"startup", "tradingLoop", "pnl"} |-> 0],
     exitCode |-> 0, errorLogged |-> FALSE]

\* The break-even adjuster: a frame for every poll made so far (where it
\* stands, the position and the plan orders it read, the list and index of
\* cancelPreviousStopLoss), the timers
\* armed and not yet over, adjustedPositions (part_001), and for the
\* properties what every setTimeout was armed on, the submits the exchange
\* accepted and whether the position had its initial stop-loss.
IdleBE ==
    [script |-> "none", frames |-> <<>>, timers |-> <<>>,
     adjustedPositions |-> {}, scheduled |-> <<>>, accepted |-> 0,
     hadInitial |-> FALSE, nextId |-> 1, fired |-> <<>>]

\* The exchange side of the break-even adjuster at rest.
NoQuote ==
    [unrealizedPL |-> Whole(0), breakEvenPrice |-> <<"string", "">>,
     available |-> Whole(0)]

\* The take-profit monitor before the first firing of its interval: a frame
\* for every calculateTPOrders call made so far, and the submits of all of
\* them in the order the exchange answered.
IdleTP == [frames |-> <<>>, calls |-> <<>>]

VariantsIdle ==
    /\ closer = IdleCloser
    /\ tick = IdleTick
    /\ boot = IdleBoot
    /\ be = IdleBE
    /\ plans = <<>>
    /\ quote = NoQuote
    /\ tpo = IdleTP

\* The script is started against the account as it is (MASTER.js:322 logs the
\* positions and orders it finds): any Ticker positions, up to MaxOrders
\* pending orders per side, and a position of another symbol.
Init ==
    /\ positions \in {S \cup {Position(OtherSymbol, "short")} :
                        S \in SUBSET {PositionIn(Ticker, hs, coin) :
                                        hs \in HoldSides, coin \in MarginCoins}}
    /\ orders \in [Sides -> 0..MaxOrders]
    /\ cyc = [p \in Cycles |-> IdleCycle]
    /\ req = [r \in Cycles |-> IdleRequest]
    /\ ev = IdleEval
    /\ trade = IdleTrade
    /\ errorLogged = FALSE
    /\ VariantsIdle

\* The same account with nothing open for Ticker.
InitFlat ==
    /\ positions = {Position(OtherSymbol, "short")}
    /\ orders = [s \in Sides |-> 0]
    /\ cyc = [p \in Cycles |-> IdleCycle]
    /\ req = [r \in Cycles |-> IdleRequest]
    /\ ev = IdleEval
    /\ trade = IdleTrade
    /\ errorLogged = FALSE
    /\ VariantsIdle

Active(p) == cyc[p].pc \notin {"idle", "done"}

TickerHoldSides ==
    {hs \in HoldSides : \E e \in positions : e.symbol = Ticker /\ e.holdSide = hs}

PendingSides == {s \in Sides : orders[s] > 0}

\* What is outstanding on the exchange for Ticker, as a set of tags.
Outstanding == {<<"position", hs>> : hs \in TickerHoldSides}
               \cup {<<"order", s>> : s \in PendingSides}

\* The handler or callback is over: by returning, by its own catch, or (the
\* handler has none) by rejecting.
Ended(t, how) == [t EXCEPT !.pc = "done", !.ended = how]

\* What the awaited placeTrade did: submitted the order, returned without
\* one (a duplicate), or threw into the loop's catch.
TradeOutcome(r) ==
    IF r.result = "raised" THEN "raised"
    ELSE IF \E j \in DOMAIN r.log : r.log[j][1] = "futuresSubmitOrder" /\ r.log[j][3] = "ok"
    THEN "placed"
    ELSE "skipped"

\* part_001:192-201, part_004:224-245  the callback that awaits placeTrade
\* goes on when placeTrade settles, in the same turn: it logs the success or
\* its catch logs the error, and it is over.
LoopAfterPlaceTrade(t, r) ==
    IF t.pc = "placeTrade" /\ r.pc = "done"
    THEN Ended([t EXCEPT !.calls[Len(t.calls)].outcome = TradeOutcome(r)],
               IF r.result = "raised" THEN "caught" ELSE "returned")
    ELSE t

Set(p, r) ==
    /\ cyc' = [cyc EXCEPT ![p] = r]
    /\ tick' = LoopAfterPlaceTrade(tick, r)
    /\ UNCHANGED <<req, ev, trade, errorLogged, closer, boot, be, plans, quote, tpo>>

\* restClientV2.getFuturesPositions in MASTER.js is getFuturesPosition (with
\* the symbol) in part_001 and part_004.
PositionsCall(script) ==
    IF script = "MASTER.js" THEN "getFuturesPositions" ELSE "getFuturesPosition"

\* What that call resolves with: every position of the account in MASTER.js
\* ({productType}), those of the symbol and margin coin in part_001 and
\* part_004 ({symbol, productType, marginCoin}).
PositionsFor(script) ==
    IF script = "MASTER.js" THEN PositionsData ELSE PositionOf(Ticker, MarginCoin)

\* The line of part_001 and part_004 that stands at this line of MASTER.js:
\* the helpers and placeTrade are the same text 56 and 97 lines further
\* down, and 30 more after calculateRiskLevels.
LineIn(script, line) ==
    line + (CASE script = "MASTER.js" -> 0
              [] script = "part_001" -> 56
              [] script = "part_004" -> 97)
         + (IF script # "MASTER.js" /\ line > 280 THEN 30 ELSE 0)

----------------------------------------------------------------------------
(* MASTER.js: the trading loop and placeTrade *)

\* closeOpenPositions without its try/catch: a rejected flash close leaves it.
CloseOpenPositionsRethrows(res) == IF res = "throw" THEN "raised" ELSE "returned"

\* closeOpenPositions wraps the flash close in try/catch and only logs: it
\* returns normally whatever the call did.
CloseOpenPositionsEnds(res) == "returned"

\* cancelAllOrders: same try/catch-and-log shape.
CancelAllOrdersEnds(res) == "returned"

\* placeTrade's catch without its `throw e`: the error is only logged.
PlaceTradeCatchSwallows(res) == "continue"

\* placeTrade's catch around setFuturesLeverage/futuresSubmitOrder: log, throw e.
PlaceTradeCatch(res) == IF res = "throw" THEN "raised" ELSE "continue"

\* The awaits of lines 250-251 stand outside any try: a rejection leaves placeTrade.
SnapshotFetchEnds(res) == IF res = "throw" THEN "raised" ELSE "continue"

\* What an evaluator hands back to the loop: the TypeError, or its record
\* with at most one of the two signals.
SignalOutcomes ==
    {TypeError, Signals(FALSE, FALSE, Whole(100)),
     Signals(TRUE, FALSE, Whole(100)), Signals(FALSE, TRUE, Whole(100))}

\* const timeframes = [...] of each timer-driven script.
Timeframes(script) ==
    CASE script = "part_001" -> <<"5m">>
      [] script = "MASTER.js" -> <<"1m", "5m", "15m", "30m">>
      [] script = "part_004" -> <<"5m", "15m", "30m", "1H", "2H", "4H">>

\* A step that ends the callback: when placeTrade has raised, the loop's catch
\* (MASTER.js:145-147) writes its error line in the same turn.
SetEnd(p, r) ==
    /\ cyc' = [cyc EXCEPT ![p] = r]
    /\ tick' = LoopAfterPlaceTrade(tick, r)
    /\ errorLogged' = (errorLogged \/ r.result = "raised")
    /\ UNCHANGED <<req, ev, trade, closer, boot, be, plans, quote, tpo>>

\* setInterval fires: the callback runs up to its first await, the candle
\* fetch of the first timeframe (MASTER.js:122 -> 49).  The callbacks that
\* have not settled by then are the ones it overlaps.
TradingLoop(p) ==
    /\ cyc[p].pc = "idle"
    /\ Set(p, [IdleCycle EXCEPT !.pc = "fetch", !.k = 1,
                                !.during = {q \in Cycles \ {p} : Active(q)}])
    /\ UNCHANGED <<positions, orders>>

\* The candle fetch of timeframe k is answered.  A null (fetchCandleData has
\* caught the rejection) is logged and ends the callback; candles lead to
\* the fetch of the next timeframe and, after the last one, to the
\* evaluation of the 15m candles and into placeTrade up to its first await
\* when there is a signal.  The fetches and the evaluation touch no account
\* state; their outcome is an input.  A throwing evaluator is logged by the
\* catch.
FetchCandleData(p) ==
    LET c == cyc[p] IN
    /\ c.pc = "fetch"
    /\ \E fetched \in {"null", "candles"} :
        IF fetched = "null"
        THEN /\ cyc' = [cyc EXCEPT ![p] = [c EXCEPT !.pc = "done", !.fetched = "null",
                                                    !.k = 0, !.result = "noTrade"]]
             /\ errorLogged' = TRUE
        ELSE IF c.k < Len(Timeframes("MASTER.js"))
        THEN /\ cyc' = [cyc EXCEPT ![p] = [c EXCEPT !.k = @ + 1]]
             /\ UNCHANGED errorLogged
        ELSE \E signals \in SignalOutcomes :
            LET branch == LoopBranch(signals)
                frame == [c EXCEPT !.fetched = fetched, !.signals = signals, !.k = 0]
            IN  /\ cyc' = [cyc EXCEPT ![p] =
                            IF branch \in Sides
                            THEN [frame EXCEPT !.pc = "co_getPositions", !.side = branch,
                                    !.startPos = TickerHoldSides,
                                    !.startOrd = PendingSides]
                            ELSE [frame EXCEPT !.pc = "done", !.result = "noTrade"]]
                /\ errorLogged' = (errorLogged \/ branch = "caught")
    /\ UNCHANGED <<positions, orders, req, ev, trade, variantVars>>

\* closeOpposingPositions: getFuturesPositions, then the loop up to its first await.
CO_GetPositions(p) ==
    LET c == cyc[p] IN
    /\ c.pc = "co_getPositions"
    /\ \E res \in Outcomes :
        LET log == Logged(c.log, PositionsCall(c.script), LineIn(c.script, 215), res)
            list == PositionsFor(c.script)
            first == NextOpposingPosition(list, 1, Ticker, c.side)
        IN  IF res = "throw"
            THEN Set(p, [c EXCEPT !.pc = "pt_getPositions", !.log = log])
            ELSE IF first > Len(list)
            THEN Set(p, [c EXCEPT !.pc = "co_getOpenOrders", !.log = log])
            ELSE Set(p, [c EXCEPT !.pc = "co_close", !.log = log,
                                  !.list = list, !.i = first,
                                  !.seenPos = NOpposingPositions(list, Ticker, c.side)])
    /\ UNCHANGED <<positions, orders>>

\* One iteration that awaits closeOpenPositions(symbol, opposingSide), then on
\* to the next such iteration or out of the loop.
CO_Close(p) ==
    LET c == cyc[p] IN
    /\ c.pc = "co_close"
    /\ \E res \in Outcomes :
        LET log == Logged(c.log, "futuresFlashClosePositions", LineIn(c.script, 195), res)
            next == NextOpposingPosition(c.list, c.i + 1, Ticker, c.side)
        IN  /\ positions' = IF res = "ok"
                            THEN FlashClosed(Ticker, OpposingSide(c.side))
                            ELSE positions
            /\ IF CloseOpenPositionsEnds(res) = "raised"
               THEN Set(p, [c EXCEPT !.pc = "pt_getPositions", !.log = log,
                                     !.list = <<>>, !.i = 0])
               ELSE IF next > Len(c.list)
               THEN Set(p, [c EXCEPT !.pc = "co_getOpenOrders", !.log = log,
                                     !.list = <<>>, !.i = 0])
               ELSE Set(p, [c EXCEPT !.log = log, !.i = next])
    /\ UNCHANGED orders

\* closeOpposingPositions: getFuturesOpenOrders, then the loop up to its first await.
CO_GetOpenOrders(p) ==
    LET c == cyc[p] IN
    /\ c.pc = "co_getOpenOrders"
    /\ \E res \in Outcomes :
        LET log == Logged(c.log, "getFuturesOpenOrders", LineIn(c.script, 227), res)
            list == EntrustedList
            first == NextOpposingOrder(list, 1, Ticker, c.side)
            book == NOpposingOrders(list, Ticker, c.side)
        IN  IF res = "throw" \/ first > Len(list)
            THEN Set(p, [c EXCEPT !.pc = "pt_getPositions", !.log = log,
                                  !.bookOrd = book])
            ELSE Set(p, [c EXCEPT !.pc = "co_cancel", !.log = log,
                                  !.list = list, !.i = first,
                                  !.bookOrd = book,
                                  !.seenOrd = NOpposingOrders(list, Ticker, c.side)])
    /\ UNCHANGED <<positions, orders>>

\* One iteration that awaits cancelAllOrders(symbol): futuresCancelAllOrders
\* cancels every pending order of the symbol.
CO_Cancel(p) ==
    LET c == cyc[p] IN
    /\ c.pc = "co_cancel"
    /\ \E res \in Outcomes :
        LET log == Logged(c.log, "futuresCancelAllOrders", LineIn(c.script, 184), res)
            next == NextOpposingOrder(c.list, c.i + 1, Ticker, c.side)
            gone == IF res = "ok" THEN c.cancelled \cup PendingSides ELSE c.cancelled
        IN  /\ orders' = IF res = "ok" THEN [s \in Sides |-> 0] ELSE orders
            /\ IF CancelAllOrdersEnds(res) = "raised" \/ next > Len(c.list)
               THEN Set(p, [c EXCEPT !.pc = "pt_getPositions", !.log = log,
                                     !.list = <<>>, !.i = 0, !.cancelled = gone])
               ELSE Set(p, [c EXCEPT !.log = log, !.i = next, !.cancelled = gone])
    /\ UNCHANGED positions

\* placeTrade line 250: the post-reconcile position snapshot.
PT_GetPositions(p) ==
    LET c == cyc[p] IN
    /\ c.pc = "pt_getPositions"
    /\ \E res \in Outcomes :
        LET log == Logged(c.log, PositionsCall(c.script), LineIn(c.script, 250), res) IN
        IF SnapshotFetchEnds(res) = "raised"
        THEN SetEnd(p, [c EXCEPT !.pc = "done", !.log = log, !.result = "raised"])
        ELSE Set(p, [c EXCEPT !.pc = "pt_getOpenOrders", !.log = log,
                              !.list = IF res = "ok" THEN PositionsFor(c.script) ELSE <<>>])
    /\ UNCHANGED <<positions, orders>>

\* placeTrade lines 251-268: the order snapshot and the two duplicate checks.
PT_GetOpenOrders(p) ==
    LET c == cyc[p] IN
    /\ c.pc = "pt_getOpenOrders"
    /\ \E res \in Outcomes :
        LET log == Logged(c.log, "getFuturesOpenOrders", LineIn(c.script, 251), res)
            pendingOrders == IF res = "ok" THEN EntrustedList ELSE <<>>
        IN  IF SnapshotFetchEnds(res) = "raised"
            THEN SetEnd(p, [c EXCEPT !.pc = "done", !.log = log, !.list = <<>>,
                                     !.result = "raised"])
            ELSE IF ExistingPosition(c.list, Ticker, c.side)
                    \/ ExistingOrder(pendingOrders, Ticker, c.side)
            THEN Set(p, [c EXCEPT !.pc = "done", !.log = log, !.list = <<>>,
                                  !.result = "returned"])
            ELSE Set(p, [c EXCEPT !.pc = "pt_setLeverage", !.log = log,
                                  !.list = <<>>])
    /\ UNCHANGED <<positions, orders>>

\* placeTrade lines 284-293.
PT_SetLeverage(p) ==
    LET c == cyc[p] IN
    /\ c.pc = "pt_setLeverage"
    /\ \E res \in Outcomes :
        LET log == Logged(c.log, "setFuturesLeverage", LineIn(c.script, 287), res) IN
        IF PlaceTradeCatch(res) = "raised"
        THEN SetEnd(p, [c EXCEPT !.pc = "done", !.log = log, !.result = "raised"])
        ELSE Set(p, [c EXCEPT !.pc = "pt_submit", !.log = log])
    /\ UNCHANGED <<positions, orders>>

\* placeTrade lines 295-318: the order rests on the book when the call succeeds.
PT_Submit(p) ==
    LET c == cyc[p] IN
    /\ c.pc = "pt_submit"
    /\ \E res \in Outcomes :
        LET log == Logged(c.log, "futuresSubmitOrder", LineIn(c.script, 312), res) IN
        /\ res = "ok" => orders[c.side] < MaxOrders
        /\ orders' = IF res = "ok"
                     THEN [orders EXCEPT ![c.side] = @ + 1]
                     ELSE orders
        /\ IF PlaceTradeCatch(res) = "raised"
           THEN SetEnd(p, [c EXCEPT !.pc = "done", !.log = log, !.result = "raised",
                                    !.atSubmit = Outstanding])
           ELSE Set(p, [c EXCEPT !.pc = "done", !.log = log, !.result = "returned",
                                 !.atSubmit = Outstanding])
    /\ UNCHANGED positions

\* A loop whose catch stops the timer.
TimerClearedOnError(c) ==
    IF c.result = "raised" \/ c.fetched = "null" \/ c.signals.error # "none"
    THEN [c EXCEPT !.pc = "stopped"]
    ELSE IdleCycle

\* setInterval keeps firing whatever the callback did: the frame is free
\* for the next tick.
TimerAfter(c) == IdleCycle

\* The callback is over and nothing of it is left but the timer: the record
\* kept of it for the properties is dropped.
CycleEnd(p) ==
    /\ cyc[p].pc = "done"
    /\ cyc' = [cyc EXCEPT ![p] = TimerAfter(cyc[p])]
    /\ UNCHANGED <<positions, orders, req, ev, trade, errorLogged, variantVars>>

\* The exchange fills a pending limit order into a position of its side.
Fill(s) ==
    /\ orders[s] > 0
    /\ orders' = [orders EXCEPT ![s] = @ - 1]
    /\ positions' = positions \cup {Position(Ticker, HoldSideOf(s))}
    /\ UNCHANGED <<cyc, req, ev, trade, errorLogged, variantVars>>

PlaceTradeStep(p) ==
    \/ CO_GetPositions(p)
    \/ CO_Close(p)
    \/ CO_GetOpenOrders(p)
    \/ CO_Cancel(p)
    \/ PT_GetPositions(p)
    \/ PT_GetOpenOrders(p)
    \/ PT_SetLeverage(p)
    \/ PT_Submit(p)

\* An assumption on the exchange, not a guard of the code: every call answers
\* well within the 60 s period, so a tick finds no earlier invocation in
\* flight.  Any number of ticks follow one another.  setInterval itself fires
\* regardless (TradingLoop); overlapping callbacks are followed in SpecOverlap.
TradingLoopAlone(p) ==
    /\ \A q \in Cycles \ {p} : cyc[q].pc = "idle"
    /\ TradingLoop(p)

NextSeq ==
    \/ \E p \in Cycles : TradingLoopAlone(p)
    \/ \E p \in Cycles : FetchCandleData(p)
    \/ \E p \in Cycles : PlaceTradeStep(p)
    \/ \E p \in Cycles : CycleEnd(p)
    \/ \E s \in Sides : Fill(s)

SpecSeq == Init /\ [][NextSeq]_vars

\* The same with what the runtime guarantees: a settled callback is over,
\* and the timer fires again.
SpecSeqFair ==
    /\ SpecSeq
    /\ WF_vars(\E p \in Cycles : CycleEnd(p))
    /\ WF_vars(\E p \in Cycles : TradingLoopAlone(p))

\* Ticks fire every 60 s whether or not the previous callback has settled:
\* up to MaxCycles invocations in flight together, each followed to its end.
NextOverlap ==
    \/ \E p \in Cycles : TradingLoop(p)
    \/ \E p \in Cycles : FetchCandleData(p)
    \/ \E p \in Cycles : PlaceTradeStep(p)
    \/ \E s \in Sides : Fill(s)

SpecOverlap == InitFlat /\ [][NextOverlap]_vars

----------------------------------------------------------------------------
(* test.js: POST /webhook *)

\* JSON values of the request body, as <<type, text>>.
Str(t) == <<"string", t>>
Num(t) == <<"number", t>>

\* JavaScript truthiness: undefined, null, NaN, '' and 0 are falsy.
Truthy(v) == v \notin {Undefined, Null, NaN, Str(""), Num("0"), Whole(0)}

RequiredFields == {"symbol", "price", "size", "orderType", "marginCoin", "side"}

\* The bodies posted: every required field present or absent, an empty
\* symbol, a zero price, both sides.  leverage and the preset prices are
\* passed through to the exchange untouched and are left out.
Bodies ==
    [symbol : {Undefined, Str(""), Str(Ticker)},
     price : {Undefined, Num("0"), Num("100")},
     size : {Undefined, Num("0.001")},
     orderType : {Undefined, Str("limit")},
     marginCoin : {Undefined, Str("USDT")},
     side : {Undefined, Str("buy"), Str("sell")}]

\* The validation with one operand of the || chain forgotten.
ValidBodyWithoutSide(body) ==
    ~(~Truthy(body.symbol) \/ ~Truthy(body.price) \/ ~Truthy(body.size)
      \/ ~Truthy(body.orderType) \/ ~Truthy(body.marginCoin))

\* !(!symbol || !price || !size || !orderType || !marginCoin || !side)
ValidBody(body) ==
    ~(~Truthy(body.symbol) \/ ~Truthy(body.price) \/ ~Truthy(body.size)
      \/ ~Truthy(body.orderType) \/ ~Truthy(body.marginCoin)
      \/ ~Truthy(body.side))

\* Reading a property an object does not have gives undefined.
JsField(obj, f) == IF f \in DOMAIN obj THEN obj[f] ELSE "undefined"

\* const holdSide = position.side === 'buy' ? 'long' : 'short'
CloseHoldSide(position) ==
    IF JsField(position, "side") = "buy" THEN "long" ELSE "short"

\* for (const position of positions) { if (position.symbol === symbol) ... }
NextSymbolPosition(list, from, symbol) ==
    LET M == {j \in from..Len(list) : list[j].symbol = symbol}
    IN  IF M = {} THEN Len(list) + 1 ELSE Min(M)

\* A mutating call resolves with code '00000', resolves with another code, or rejects.
Responses == {"ok", "rejected", "throw"}

SetReq(r, x) == req' = [req EXCEPT ![r] = x] /\ UNCHANGED <<cyc, ev, trade, errorLogged, variantVars>>

\* A handler whose catch answers as if the order had gone through.
Answer200Anyway(q, log) == [q EXCEPT !.pc = "done", !.log = log, !.status = 200,
                                      !.list = <<>>, !.i = 0]

\* Every catch on the way (closeOpenPositions, futuresCancelAllOrders,
\* manageTradingAssets, placeTrade) rethrows; the handler's catch answers 500.
Answer500(q, log) == [q EXCEPT !.pc = "done", !.log = log, !.status = 500,
                                !.list = <<>>, !.i = 0]

\* The handler up to its first await: destructure, validate, answer 400 or
\* go on into manageTradingAssets.
WebhookPost(r) ==
    /\ req[r].pc = "idle"
    /\ \E body \in Bodies :
        IF ~ValidBody(body)
        THEN SetReq(r, [IdleRequest EXCEPT !.pc = "done", !.body = body,
                                           !.status = 400])
        ELSE SetReq(r, [IdleRequest EXCEPT !.pc = "cp_getPositions",
                                           !.body = body,
                                           !.startPos = TickerHoldSides])
    /\ UNCHANGED <<positions, orders>>

\* closeOpenPositions: getFuturesPositions, then the loop up to its first await.
WH_GetPositions(r) ==
    LET q == req[r] IN
    /\ q.pc = "cp_getPositions"
    /\ \E res \in Outcomes :
        LET log == Logged(q.log, "getFuturesPositions", 108, res)
            list == PositionsData
            first == NextSymbolPosition(list, 1, q.body.symbol[2])
        IN  IF res = "throw"
            THEN SetReq(r, Answer500(q, log))
            ELSE IF first > Len(list)
            THEN SetReq(r, [q EXCEPT !.pc = "ca_cancel", !.log = log])
            ELSE SetReq(r, [q EXCEPT !.pc = "cp_close", !.log = log,
                                     !.list = list, !.i = first])
    /\ UNCHANGED <<positions, orders>>

\* One iteration of the loop: flash-close the hold side computed from
\* position.side, log the response code, go on.
WH_Close(r) ==
    LET q == req[r] IN
    /\ q.pc = "cp_close"
    /\ \E res \in Responses :
        LET log == Logged(q.log, "futuresFlashClosePositions", 116, res)
            symbol == q.body.symbol[2]
            next == NextSymbolPosition(q.list, q.i + 1, symbol)
        IN  /\ positions' = IF res = "ok"
                            THEN FlashClosed(symbol, CloseHoldSide(q.list[q.i]))
                            ELSE positions
            /\ IF res = "throw"
               THEN SetReq(r, Answer500(q, log))
               ELSE IF next > Len(q.list)
               THEN SetReq(r, [q EXCEPT !.pc = "ca_cancel", !.log = log,
                                        !.list = <<>>, !.i = 0])
               ELSE SetReq(r, [q EXCEPT !.log = log, !.i = next])
    /\ UNCHANGED orders

\* futuresCancelAllOrders: every pending order of the symbol goes when the
\* exchange accepts; another code is only logged.
WH_CancelAll(r) ==
    LET q == req[r] IN
    /\ q.pc = "ca_cancel"
    /\ \E res \in Responses :
        LET log == Logged(q.log, "futuresCancelAllOrders", 141, res) IN
        /\ orders' = IF res = "ok" THEN [s \in Sides |-> 0] ELSE orders
        /\ IF res = "throw"
           THEN SetReq(r, Answer500(q, log))
           ELSE SetReq(r, [q EXCEPT !.pc = "wt_setLeverage", !.log = log])
    /\ UNCHANGED positions

\* placeTrade: setFuturesLeverage; its response is not looked at.
WH_SetLeverage(r) ==
    LET q == req[r] IN
    /\ q.pc = "wt_setLeverage"
    /\ \E res \in Responses :
        LET log == Logged(q.log, "setFuturesLeverage", 195, res) IN
        IF res = "throw"
        THEN SetReq(r, Answer500(q, log))
        ELSE SetReq(r, [q EXCEPT !.pc = "wt_submit", !.log = log])
    /\ UNCHANGED <<positions, orders>>

\* placeTrade: futuresSubmitOrder; whatever it resolves with is answered 200.
WH_Submit(r) ==
    LET q == req[r] IN
    /\ q.pc = "wt_submit"
    /\ \E res \in Responses :
        LET log == Logged(q.log, "futuresSubmitOrder", 220, res)
            side == q.body.side[2]
        IN  /\ res = "ok" => orders[side] < MaxOrders
            /\ orders' = IF res = "ok"
                         THEN [orders EXCEPT ![side] = @ + 1]
                         ELSE orders
            /\ IF res = "throw"
               THEN SetReq(r, Answer500(q, log))
               ELSE SetReq(r, [q EXCEPT !.pc = "done", !.log = log,
                                        !.status = 200])
    /\ UNCHANGED positions

\* The response has gone out.
RequestEnd(r) ==
    /\ req[r].pc = "done"
    /\ SetReq(r, IdleRequest)
    /\ UNCHANGED <<positions, orders>>

\* An assumption on the clients, not a guard of the handler: requests arrive
\* one after another.  express calls the handler for every request
\* (WebhookPost).
WebhookPostAlone(r) ==
    /\ \A o \in Cycles \ {r} : req[o].pc = "idle"
    /\ WebhookPost(r)

NextWebhook ==
    \/ \E r \in Cycles : WebhookPostAlone(r)
    \/ \E r \in Cycles : WH_GetPositions(r)
    \/ \E r \in Cycles : WH_Close(r)
    \/ \E r \in Cycles : WH_CancelAll(r)
    \/ \E r \in Cycles : WH_SetLeverage(r)
    \/ \E r \in Cycles : WH_Submit(r)
    \/ \E r \in Cycles : RequestEnd(r)
    \/ \E s \in Sides : Fill(s)

SpecWebhook == Init /\ [][NextWebhook]_vars

----------------------------------------------------------------------------
(* The signal evaluators on their own: a fetched candle array in, the
   signals and the loop's branch out *)

\* Longest candle array evaluated.
MaxCandles == 16

EvaluatorScripts == {"MASTER.js", "part_001"}

\* open, high, low, close, volume of the candle shapes the arrays are made
\* of: a doji without volume, a rising bar, a falling bar, a small rising
\* bar.  (high + low + close) / 3 is a whole number for each, so that the
\* doubles of the scripts compare as the fractions here do.
ShapeOHLCV ==
    [Flat |-> <<1, 1, 1, 1, 0>>,
     Up |-> <<1, 7, 1, 7, 1>>,
     Down |-> <<7, 7, 1, 1, 1>>,
     UpSmall |-> <<1, 4, 1, 4, 1>>]

Shapes == DOMAIN ShapeOHLCV

\* fetchCandleData's map: parseFloat of open, high, low, close, volume.
Candle(shape) ==
    LET v == ShapeOHLCV[shape]
    IN  <<"timestamp", Whole(v[1]), Whole(v[2]), Whole(v[3]), Whole(v[4]), Whole(v[5])>>

CandlesOf(shapes) == [i \in 1..Len(shapes) |-> Candle(shapes[i])]

\* The arrays of n candles: at most one leading candle, then a run of one
\* shape, then a run of another.
ArraysOfLength(n) ==
    {Repeat(a, j) \o Repeat(b, n - j) : a \in Shapes, b \in Shapes, j \in 0..n}
    \cup {<<h>> \o Repeat(a, j) \o Repeat(b, n - 1 - j) :
            h \in Shapes, a \in Shapes, b \in Shapes, j \in 0..(n - 1)}

\* What the exchange may answer the candle request with, the empty array included.
FetchedArrays == UNION {ArraysOfLength(n) : n \in 0..MaxCandles}

\* const signals = calculateTradingSignals(candles)            (part_001:188)
\* const signals = calculateMarketCipherSignals(candles...)    (MASTER.js:131)
Evaluate(script, candles) ==
    IF script = "part_001" THEN calculateTradingSignals(candles)
    ELSE calculateMarketCipherSignals(candles)

InitSignals ==
    /\ positions = {Position(OtherSymbol, "short")}
    /\ orders = [s \in Sides |-> 0]
    /\ cyc = [p \in Cycles |-> IdleCycle]
    /\ req = [r \in Cycles |-> IdleRequest]
    /\ ev \in [pc : {"fetched"}, script : EvaluatorScripts,
               candles : FetchedArrays, signals : {IdleEval.signals},
               branch : {"none"}]
    /\ trade = IdleTrade
    /\ errorLogged = FALSE
    /\ VariantsIdle

EvaluateSignals ==
    /\ ev.pc = "fetched"
    /\ ev' = [ev EXCEPT !.pc = "evaluated",
                        !.signals = Evaluate(ev.script, CandlesOf(ev.candles))]
    /\ UNCHANGED <<positions, orders, cyc, req, trade, errorLogged, variantVars>>

\* The if/else on the signals, or the loop's catch, which writes its error
\* line (part_001:203, MASTER.js:146).
BranchOnSignals ==
    /\ ev.pc = "evaluated"
    /\ ev' = [ev EXCEPT !.pc = "branched", !.branch = LoopBranch(ev.signals)]
    /\ errorLogged' = (errorLogged \/ LoopBranch(ev.signals) = "caught")
    /\ UNCHANGED <<positions, orders, cyc, req, trade, variantVars>>

NextSignals == EvaluateSignals \/ BranchOnSignals

SpecSignals == InitSignals /\ [][NextSignals]_vars

----------------------------------------------------------------------------
(* placeTrade of the timer-driven scripts, from the risk levels on *)

\* Highest signal price, in tenths of a quote unit.
MaxPriceTenths == 1000

TimerScripts == {"MASTER.js", "part_001", "part_004"}

\* signal.price: a candle close, here every tenth up to the bound.
Prices == {Rat(t, 10) : t \in 1..MaxPriceTenths}

\* const stopLossPercentage = 0.01 in both scripts; takeProfitPercentage is
\* 0.05 in part_001 and 1.05 in part_004.
stopLossPercentage(script) == Rat(1, 100)
takeProfitPercentage(script) == IF script = "part_004" THEN Rat(105, 100) ELSE Rat(5, 100)

\* calculateRiskLevels with Math.floor in place of Math.round.
calculateRiskLevelsFloor(script, entryPrice, tradeSide) ==
    LET tp == takeProfitPercentage(script)
        sl == stopLossPercentage(script)
    IN  IF tradeSide = "buy"
        THEN [takeProfitPrice |-> MathFloor(JsMul(entryPrice, JsAdd(Whole(1), tp))),
              stopLossPrice |-> MathFloor(JsMul(entryPrice, JsSub(Whole(1), sl)))]
        ELSE [takeProfitPrice |-> MathFloor(JsMul(entryPrice, JsSub(Whole(1), tp))),
              stopLossPrice |-> MathFloor(JsMul(entryPrice, JsAdd(Whole(1), sl)))]

\* The greatest power of two that is no more than n, for n >= 1: the
\* spacing of the doubles around n, in units of 2^-52.
RECURSIVE Pow2Floor(_)
Pow2Floor(n) == IF n < 2 THEN 1 ELSE 2 * Pow2Floor(n \div 2)

\* The fraction lies half-way between two whole numbers.
HalfWay(x) == (2 * x[2]) % (2 * x[3]) = x[3]

\* entryPrice * (1 + takeProfitPercentage) and entryPrice * (1 -
\* takeProfitPercentage) of part_004 in doubles, next to the fraction
\* product that is half-way.  1.05 is the double 1.05 + 0.2 * 2^-52, so
\* 1 - 1.05 is -0.05 - 0.2 * 2^-52 and the sell product lies below the
\* half-way fraction by more than half the spacing of the doubles there:
\* it is a double below it.  1 + 1.05 is the double 2.05 - 0.8 * 2^-52, so
\* the buy product lies 0.8 * entryPrice * 2^-52 below the half-way
\* fraction and is rounded to a double below it when that is more than
\* half the spacing, and to the half-way double itself (the even one of the
\* two) when it is not.
ProductBelowHalfWay(entryPrice, tradeSide, product) ==
    \/ tradeSide = "sell"
    \/ 16 * entryPrice[2] > 10 * entryPrice[3] * Pow2Floor(product[2] \div product[3])

\* calculateRiskLevels(entryPrice, tradeSide) of part_001 and part_004; the
\* side is 'buy' or 'sell' at every call, so the throw is not reached.  The
\* fractions are what the doubles round to, but for the half-way take-profit
\* products of part_004.
calculateRiskLevels(script, entryPrice, tradeSide) ==
    LET tp == takeProfitPercentage(script)
        sl == stopLossPercentage(script)
        product == IF tradeSide = "buy" THEN JsMul(entryPrice, JsAdd(Whole(1), tp))
                   ELSE JsMul(entryPrice, JsSub(Whole(1), tp))
        takeProfit == IF /\ script = "part_004"
                         /\ HalfWay(product)
                         /\ ProductBelowHalfWay(entryPrice, tradeSide, product)
                      THEN MathRoundTiesDown(product)
                      ELSE MathRound(product)
    IN  IF tradeSide = "buy"
        THEN [takeProfitPrice |-> takeProfit,
              stopLossPrice |-> MathRound(JsMul(entryPrice, JsSub(Whole(1), sl)))]
        ELSE [takeProfitPrice |-> takeProfit,
              stopLossPrice |-> MathRound(JsMul(entryPrice, JsAdd(Whole(1), sl)))]

\* MASTER.js with the side ignored: the buy prices for either side.
PresetPricesOfBuy(price, side) ==
    [takeProfitPrice |-> MathFloor(JsMul(price, Rat(105, 100))),
     stopLossPrice |-> MathFloor(JsMul(price, Rat(95, 100)))]

\* MASTER.js:281-282, presetTakeProfitPrice and presetStopLossPrice.
PresetPrices(price, side) ==
    [takeProfitPrice |-> IF side = "buy" THEN MathFloor(JsMul(price, Rat(105, 100)))
                         ELSE MathFloor(JsMul(price, Rat(95, 100))),
     stopLossPrice |-> IF side = "buy" THEN MathFloor(JsMul(price, Rat(95, 100)))
                       ELSE MathFloor(JsMul(price, Rat(105, 100)))]

\* const { takeProfitPrice, stopLossPrice } = calculateRiskLevels(price, side)
\* of part_001 and part_004, and the two preset prices of MASTER.js.
RiskLevels(script, price, side) ==
    IF script = "MASTER.js" THEN PresetPrices(price, side)
    ELSE calculateRiskLevels(script, price, side)

\* What every script puts into the order object.
OrderBase(t) ==
    [symbol |-> Ticker, productType |-> "UMCBL", marginMode |-> "isolated",
     marginCoin |-> "SUSDT", size |-> "0.001", price |-> t.price,
     side |-> t.side, tradeSide |-> "open", orderType |-> "limit",
     force |-> "gtc"]

\* An order object with one more key.
With(order, key, value) ==
    [k \in DOMAIN order \cup {key} |-> IF k = key THEN value ELSE order[k]]

\* The order object: part_004 has its take-profit line commented out.
OrderOf(t) ==
    LET withStop == With(OrderBase(t), "presetStopLossPrice", t.stopLossPrice)
    IN  IF t.script = "part_004" THEN withStop
        ELSE With(withStop, "presetTakeProfitPrice", t.takeProfitPrice)

SetTrade(t) == trade' = t /\ UNCHANGED <<cyc, req, ev, errorLogged, variantVars>>

InitTrades ==
    /\ positions = {Position(OtherSymbol, "short")}
    /\ orders = [s \in Sides |-> 0]
    /\ cyc = [p \in Cycles |-> IdleCycle]
    /\ req = [r \in Cycles |-> IdleRequest]
    /\ ev = IdleEval
    /\ \E script \in TimerScripts, side \in Sides, price \in Prices :
            trade = [IdleTrade EXCEPT !.pc = "riskLevels", !.script = script,
                                      !.side = side, !.price = price]
    /\ errorLogged = FALSE
    /\ VariantsIdle

\* The preset prices, computed before the try block.
TR_RiskLevels ==
    /\ trade.pc = "riskLevels"
    /\ LET levels == RiskLevels(trade.script, trade.price, trade.side)
       IN  SetTrade([trade EXCEPT !.pc = "setLeverage",
                                   !.takeProfitPrice = levels.takeProfitPrice,
                                   !.stopLossPrice = levels.stopLossPrice])
    /\ UNCHANGED <<positions, orders>>

TR_SetLeverage ==
    /\ trade.pc = "setLeverage"
    /\ \E res \in Outcomes :
        LET log == Logged(trade.log, "setFuturesLeverage", 287, res) IN
        IF PlaceTradeCatch(res) = "raised"
        THEN SetTrade([trade EXCEPT !.pc = "raised", !.log = log])
        ELSE SetTrade([trade EXCEPT !.pc = "submit", !.log = log])
    /\ UNCHANGED <<positions, orders>>

\* The order object is built and handed to futuresSubmitOrder.
TR_Submit ==
    /\ trade.pc = "submit"
    /\ \E res \in Outcomes :
        LET log == Logged(trade.log, "futuresSubmitOrder", 312, res) IN
        /\ orders' = IF res = "ok"
                     THEN [orders EXCEPT ![trade.side] = @ + 1]
                     ELSE orders
        /\ IF PlaceTradeCatch(res) = "raised"
           THEN SetTrade([trade EXCEPT !.pc = "raised", !.log = log,
                                      !.order = OrderOf(trade)])
           ELSE SetTrade([trade EXCEPT !.pc = "returned", !.log = log,
                                      !.order = OrderOf(trade)])
    /\ UNCHANGED positions

NextTrades == TR_RiskLevels \/ TR_SetLeverage \/ TR_Submit

SpecTrades == InitTrades /\ [][NextTrades]_vars

----------------------------------------------------------------------------
(* Properties of the timer-driven pipeline *)

InPlaceTrade(p) == cyc[p].side \in Sides

\* closeOpposingPositions has returned to placeTrade.
Reconciled(p) ==
    InPlaceTrade(p)
    /\ cyc[p].pc \in {"pt_getPositions", "pt_getOpenOrders", "pt_setLeverage",
                      "pt_submit", "done"}

SameSideOpenAtStart(p) == HoldSideOf(cyc[p].side) \in cyc[p].startPos

OpposingOpenAtStart(p) == OpposingSide(cyc[p].side) \in cyc[p].startPos

OtherSide(s) == IF s = "buy" THEN "sell" ELSE "buy"

SnapshotFetchThrew(log) ==
    \/ Called(log, "getFuturesPositions", 250, "throw")
    \/ Called(log, "getFuturesOpenOrders", 251, "throw")

\* C1 as stated: with a long position open and a buy signal (short/sell alike),
\* placeTrade makes no futuresSubmitOrder and no setFuturesLeverage call and
\* returns without raising.
C1_SkipNeverRaises ==
    \A p \in Cycles :
        (InPlaceTrade(p) /\ SameSideOpenAtStart(p)) =>
            /\ NCalls(cyc[p].log, "futuresSubmitOrder") = 0
            /\ NCalls(cyc[p].log, "setFuturesLeverage") = 0
            /\ cyc[p].result # "raised"

\* C1 amended: with a same-side position open when the signal arrives,
\* placeTrade makes no futuresSubmitOrder and no setFuturesLeverage call; it
\* ends by returning, except that a rejected post-reconcile snapshot fetch
\* (line 250 or 251) propagates out of it.
C1_SkipUnlessFetchRejects ==
    \A p \in Cycles :
        (InPlaceTrade(p) /\ SameSideOpenAtStart(p)) =>
            /\ NCalls(cyc[p].log, "futuresSubmitOrder") = 0
            /\ NCalls(cyc[p].log, "setFuturesLeverage") = 0
            /\ cyc[p].pc = "done" =>
                 IF SnapshotFetchThrew(cyc[p].log)
                 THEN cyc[p].result = "raised"
                 ELSE cyc[p].result = "returned"

C1_Witness ==
    \E p \in Cycles :
        /\ cyc[p].side = "buy" /\ "long" \in cyc[p].startPos
        /\ cyc[p].pc = "done" /\ cyc[p].result = "returned"
        /\ Called(cyc[p].log, "getFuturesOpenOrders", 251, "ok")

\* C2 as stated: with invocations one after another, an order is submitted
\* neither while an order of its side is pending (so never two per side)
\* nor while a position of its side is open.
C2_NoSecondOrderNoPyramiding ==
    \A p \in Cycles :
        Called(cyc[p].log, "futuresSubmitOrder", 312, "ok") =>
            /\ <<"order", cyc[p].side>> \notin cyc[p].atSubmit
            /\ <<"position", HoldSideOf(cyc[p].side)>> \notin cyc[p].atSubmit

\* C3 as stated: once closeOpposingPositions has returned, no opposing
\* position and no opposing pending order is left, and futuresSubmitOrder is
\* only called with nothing opposing outstanding.
C3_NothingOpposingAfterReconcile ==
    \A p \in Cycles :
        /\ cyc[p].pc = "pt_getPositions" =>
              /\ OpposingSide(cyc[p].side) \notin TickerHoldSides
              /\ orders[OtherSide(cyc[p].side)] = 0
        /\ NCalls(cyc[p].log, "futuresSubmitOrder") > 0 =>
              /\ <<"position", OpposingSide(cyc[p].side)>> \notin cyc[p].atSubmit
              /\ <<"order", OtherSide(cyc[p].side)>> \notin cyc[p].atSubmit

\* C4 as stated: with an opposing position open when the signal arrives, every
\* setFuturesLeverage and futuresSubmitOrder call of the invocation comes
\* after a flash-close call of that invocation.
C4_CloseBeforePlacement ==
    \A p \in Cycles :
        (InPlaceTrade(p) /\ OpposingOpenAtStart(p)) =>
            \A j \in CallIdx(cyc[p].log, "setFuturesLeverage")
                     \cup CallIdx(cyc[p].log, "futuresSubmitOrder") :
                \E k \in CallIdx(cyc[p].log, "futuresFlashClosePositions") : k < j

NoSameSideAtStart(p) ==
    /\ ~SameSideOpenAtStart(p)
    /\ cyc[p].side \notin cyc[p].startOrd

\* C5 as stated: of two overlapping invocations for the same side, both
\* started with no position or order of that side, at most one calls
\* futuresSubmitOrder.
C5_OverlapSubmitsOnce ==
    \A p, q \in Cycles :
        (/\ p # q /\ InPlaceTrade(p) /\ InPlaceTrade(q)
         /\ q \in cyc[p].during
         /\ cyc[p].side = cyc[q].side
         /\ NoSameSideAtStart(p) /\ NoSameSideAtStart(q)) =>
            ~(/\ NCalls(cyc[p].log, "futuresSubmitOrder") > 0
              /\ NCalls(cyc[q].log, "futuresSubmitOrder") > 0)

\* C6 as stated: no invocation is reconciling or placing while another one is.
C6_OneCycleAtATime ==
    Cardinality({p \in Cycles : Active(p) /\ cyc[p].pc # "fetch"}) <= 1

\* C7 as stated: with an order of the signal's side pending when placeTrade
\* starts, placeTrade submits nothing and does not take that order off the
\* book, whatever opposing orders or positions there are.
C7_SameSideOrderKept ==
    \A p \in Cycles :
        (InPlaceTrade(p) /\ cyc[p].side \in cyc[p].startOrd) =>
            /\ NCalls(cyc[p].log, "futuresSubmitOrder") = 0
            /\ cyc[p].side \notin cyc[p].cancelled

\* An earlier flash-close call of the pass threw and a later one was issued.
CloseSentAfterFailedClose(log) ==
    \E j, k \in CallIdx(log, "futuresFlashClosePositions") :
        j < k /\ log[j][3] = "throw"

\* C8 as stated: once a flash-close call has thrown, when
\* closeOpposingPositions is through, one close call was issued per opposing
\* position of the snapshot and one cancel-all call per opposing order that
\* was pending on the book.
C8_FailedCloseNeverLosesACancel ==
    \A p \in Cycles :
        (Reconciled(p) /\ Threw(cyc[p].log, "futuresFlashClosePositions")) =>
            /\ NCalls(cyc[p].log, "futuresFlashClosePositions") = cyc[p].seenPos
            /\ NCalls(cyc[p].log, "futuresCancelAllOrders") = cyc[p].bookOrd

\* C8: whatever the flash-close calls did (a rejection included), when
\* closeOpposingPositions is through, one close call was issued per opposing
\* position of the snapshot and the pending orders were fetched (line 227);
\* if that fetch resolved, one cancel-all call was issued per opposing order
\* on the book, and if it rejected, none.
C8_FailedCloseDoesNotAbort ==
    \A p \in Cycles :
        (Reconciled(p) /\ Called(cyc[p].log, "getFuturesPositions", 215, "ok")) =>
            /\ NCalls(cyc[p].log, "futuresFlashClosePositions") = cyc[p].seenPos
            /\ CalledAt(cyc[p].log, 227)
            /\ Called(cyc[p].log, "getFuturesOpenOrders", 227, "ok") =>
                  NCalls(cyc[p].log, "futuresCancelAllOrders") = cyc[p].bookOrd
            /\ Called(cyc[p].log, "getFuturesOpenOrders", 227, "throw") =>
                  NCalls(cyc[p].log, "futuresCancelAllOrders") = 0

\* Two opposing positions in the snapshot, the first close threw, the second
\* was sent all the same, and both opposing orders were sent a cancel-all.
C8_Witness ==
    \E p \in Cycles :
        /\ Reconciled(p)
        /\ cyc[p].seenPos = 2
        /\ CloseSentAfterFailedClose(cyc[p].log)
        /\ NCalls(cyc[p].log, "futuresFlashClosePositions") = 2
        /\ Called(cyc[p].log, "getFuturesOpenOrders", 227, "ok")
        /\ cyc[p].bookOrd = 2
        /\ NCalls(cyc[p].log, "futuresCancelAllOrders") = 2

\* C9: a rejected post-reconcile fetch or setFuturesLeverage ends placeTrade
\* by raising with no futuresSubmitOrder call; a rejected futuresSubmitOrder
\* ends it by raising; and no step of the placement is issued twice.
C9_PlacementAbortsAndPropagates ==
    \A p \in Cycles :
        LET log == cyc[p].log IN
        /\ NCalls(log, "futuresSubmitOrder") <= 1
        /\ NCalls(log, "setFuturesLeverage") <= 1
        /\ Cardinality({j \in DOMAIN log : log[j][2] = 250}) <= 1
        /\ Cardinality({j \in DOMAIN log : log[j][2] = 251}) <= 1
        /\ (SnapshotFetchThrew(log) \/ Threw(log, "setFuturesLeverage")) =>
              /\ NCalls(log, "futuresSubmitOrder") = 0
              /\ cyc[p].pc = "done" /\ cyc[p].result = "raised"
        /\ Threw(log, "futuresSubmitOrder") =>
              cyc[p].pc = "done" /\ cyc[p].result = "raised"

C9_Witness ==
    \E p \in Cycles :
        /\ Called(cyc[p].log, "setFuturesLeverage", 287, "throw")
        /\ cyc[p].result = "raised"

----------------------------------------------------------------------------
(* Properties of the webhook handler *)

MissingField(body) == \E f \in RequiredFields : body[f] = Undefined

\* C10: a request whose body lacks symbol, price, size, orderType,
\* marginCoin or side is answered 400 at once and issues no exchange call.
C10_MissingFieldIs400 ==
    \A r \in Cycles :
        (req[r].pc # "idle" /\ MissingField(req[r].body)) =>
            /\ req[r].pc = "done"
            /\ req[r].status = 400
            /\ req[r].log = <<>>

C10_Witness ==
    \E r \in Cycles :
        /\ req[r].status = 400
        /\ req[r].body.side = Undefined
        /\ \A f \in RequiredFields \ {"side"} : Truthy(req[r].body[f])

----------------------------------------------------------------------------
(* C11-C13: the webhook's answers *)

LastCall(log) == log[Len(log)]

AnyThrow(log) == \E j \in DOMAIN log : log[j][3] = "throw"

\* C11: a validated POST /webhook gets exactly one response: 200 only after
\* the closes, the cancel-all, setFuturesLeverage and futuresSubmitOrder all
\* completed without throwing, and 500 with no order submitted afterwards
\* whenever one of those calls throws.
C11_OneResponse200Or500 ==
    \A r \in Cycles :
        LET q == req[r] IN
        (q.pc # "idle" /\ ValidBody(q.body)) =>
            /\ q.status = 0 <=> q.pc # "done"
            /\ q.status \in {0, 200, 500}
            /\ q.status = 200 =>
                    /\ ~AnyThrow(q.log)
                    /\ \E res \in Responses :
                            Called(q.log, "getFuturesPositions", 108, "ok")
                            /\ Called(q.log, "futuresCancelAllOrders", 141, res)
                    /\ \E res \in Responses :
                            Called(q.log, "setFuturesLeverage", 195, res)
                    /\ LastCall(q.log)[1] = "futuresSubmitOrder"
                    /\ NCalls(q.log, "futuresSubmitOrder") = 1
            /\ AnyThrow(q.log) =>
                    /\ q.status = 500
                    /\ LastCall(q.log)[3] = "throw"
                    /\ \A j \in DOMAIN q.log :
                            q.log[j][3] = "throw" => j = Len(q.log)
                    /\ ~Called(q.log, "futuresSubmitOrder", 220, "ok")
            /\ q.status = 500 => AnyThrow(q.log)

\* A request answered 200 after a flash close, the cancel-all, the leverage
\* call and the submission all resolved.
C11_Witness ==
    \E r \in Cycles :
        /\ req[r].status = 200
        /\ Called(req[r].log, "futuresFlashClosePositions", 116, "ok")
        /\ Called(req[r].log, "futuresCancelAllOrders", 141, "ok")
        /\ Called(req[r].log, "futuresSubmitOrder", 220, "ok")

\* C12: when the exchange answers a close-position or cancel-orders call
\* with a code other than '00000' instead of throwing, the request is
\* answered 500 and no order is submitted.
C12_RejectionIs500 ==
    \A r \in Cycles :
        LET q == req[r] IN
        (q.pc = "done"
         /\ (Called(q.log, "futuresFlashClosePositions", 116, "rejected")
             \/ Called(q.log, "futuresCancelAllOrders", 141, "rejected"))) =>
            /\ q.status = 500
            /\ NCalls(q.log, "futuresSubmitOrder") = 0

\* C13: a webhook signal for the side the symbol already holds (buy with a
\* long, sell with a short) submits no order and leaves the position open.
C13_DuplicateSignalIsNoOp ==
    \A r \in Cycles :
        LET q == req[r] IN
        (q.pc = "done" /\ ValidBody(q.body)
         /\ HoldSideOf(q.body.side[2]) \in q.startPos) =>
            /\ NCalls(q.log, "futuresSubmitOrder") = 0
            /\ Position(Ticker, HoldSideOf(q.body.side[2])) \in positions

----------------------------------------------------------------------------
(* C14-C15: the signal evaluators *)

Evaluated == ev.pc \in {"evaluated", "branched"}

\* C14: whatever the candle array (any length, indicator values that are
\* null, undefined, NaN or infinite included), calculateTradingSignals and
\* calculateMarketCipherSignals never return buySignal and sellSignal both
\* true.
C14_SignalsExclusive ==
    Evaluated => ~(ev.signals.buySignal /\ ev.signals.sellSignal)

\* calculateTradingSignals returned a buy signal on an array long enough
\* for a numeric RSI, and that RSI is above 30.
C14_Witness ==
    /\ ev.pc = "evaluated"
    /\ ev.script = "part_001"
    /\ ev.signals.buySignal
    /\ JsGreater(LastOf(calculateRSI(CandlesOf(ev.candles), 14)), Whole(30))

\* C15: on fewer than 21 candles (none included) calculateTradingSignals
\* returns neither signal and does not throw, and the cycle places no trade.
C15_ShortArrayNoSignal ==
    (Evaluated /\ ev.script = "part_001" /\ Len(ev.candles) < 21) =>
        /\ ev.signals.error = "none"
        /\ ~ev.signals.buySignal
        /\ ~ev.signals.sellSignal
        /\ ev.branch \notin Sides

----------------------------------------------------------------------------
(* C16-C18: preset prices and the submitted order *)

\* The levels are computed.
Levelled == trade.pc \in {"setLeverage", "submit", "raised", "returned"}

\* futuresSubmitOrder resolved for this order.
Submitted == Called(trade.log, "futuresSubmitOrder", 312, "ok")

\* round(price * percent / 100), halves up, on the fraction n / d of the price.
RoundedPercent(price, percent) ==
    (2 * price[2] * percent + 100 * price[3]) \div (200 * price[3])

\* C16: with stopLossPercentage 0.01 and takeProfitPercentage 0.05,
\* calculateRiskLevels returns round(entryPrice * 1.05) and
\* round(entryPrice * 0.99) for a buy, round(entryPrice * 0.95) and
\* round(entryPrice * 1.01) for a sell; a buy at 100 gets stop-loss 99 and
\* take-profit 105; the submitted order carries these values.
C16_RiskLevelsRounded ==
    (Levelled /\ trade.script = "part_001") =>
        /\ trade.side = "buy" =>
                /\ trade.takeProfitPrice = Whole(RoundedPercent(trade.price, 105))
                /\ trade.stopLossPrice = Whole(RoundedPercent(trade.price, 99))
        /\ trade.side = "sell" =>
                /\ trade.takeProfitPrice = Whole(RoundedPercent(trade.price, 95))
                /\ trade.stopLossPrice = Whole(RoundedPercent(trade.price, 101))
        /\ (trade.side = "buy" /\ trade.price = Whole(100)) =>
                /\ trade.stopLossPrice = Whole(99)
                /\ trade.takeProfitPrice = Whole(105)
        /\ Submitted =>
                /\ trade.order.presetTakeProfitPrice = trade.takeProfitPrice
                /\ trade.order.presetStopLossPrice = trade.stopLossPrice

\* The buy at 100 of part_001, submitted with stop-loss 99 and take-profit 105.
C16_Witness ==
    /\ trade.script = "part_001"
    /\ trade.side = "buy"
    /\ trade.price = Whole(100)
    /\ Submitted
    /\ trade.order.presetStopLossPrice = Whole(99)
    /\ trade.order.presetTakeProfitPrice = Whole(105)

\* stopLoss < price < takeProfit for a buy, takeProfit < price < stopLoss
\* for a sell.
StrictlyAround(t) ==
    IF t.side = "buy"
    THEN JsLess(t.stopLossPrice, t.price) /\ JsLess(t.price, t.takeProfitPrice)
    ELSE JsLess(t.takeProfitPrice, t.price) /\ JsLess(t.price, t.stopLossPrice)

\* C17 as stated: for every positive reference price the preset prices of
\* part_001 and MASTER.js lie strictly on either side of the price.
C17_StrictForEveryPrice ==
    (Levelled /\ trade.script \in {"part_001", "MASTER.js"}) => StrictlyAround(trade)

\* C17, amended: the same for every reference price above 50.
C17_StrictAbove50 ==
    (Levelled /\ trade.script \in {"part_001", "MASTER.js"}
     /\ JsGreater(trade.price, Whole(50))) => StrictlyAround(trade)

\* A sell of MASTER.js just above 50 with its levels computed.
C17_Witness ==
    /\ Levelled
    /\ trade.script = "MASTER.js"
    /\ trade.side = "sell"
    /\ trade.price = Rat(501, 10)
    /\ trade.takeProfitPrice = Whole(47)
    /\ trade.stopLossPrice = Whole(52)

\* C18: every order placeTrade submits in MASTER.js, part_001 and part_004
\* is a limit order carrying the computed take-profit and stop-loss prices.
C18_LimitOrderWithBothPresets ==
    Submitted =>
        /\ trade.order.orderType = "limit"
        /\ "presetStopLossPrice" \in DOMAIN trade.order
        /\ "presetTakeProfitPrice" \in DOMAIN trade.order
        /\ trade.order.presetStopLossPrice = trade.stopLossPrice
        /\ trade.order.presetTakeProfitPrice = trade.takeProfitPrice

----------------------------------------------------------------------------
(* C19-C20: the polling loop around placeTrade *)

\* The candles came and the evaluator returned neither signal.
NoSignalTick(c) ==
    /\ c.pc # "idle"
    /\ c.fetched = "candles"
    /\ c.signals.error = "none"
    /\ ~c.signals.buySignal
    /\ ~c.signals.sellSignal

\* C19: a polling cycle whose evaluator yields neither a buy nor a sell
\* signal makes no exchange call: no position or order fetch, no close,
\* cancel, leverage or submit.
C19_NoSignalNoCall ==
    \A p \in Cycles :
        NoSignalTick(cyc[p]) =>
            /\ cyc[p].pc = "done"
            /\ cyc[p].log = <<>>
            /\ cyc[p].side = "none"
            /\ cyc[p].result = "noTrade"

\* Such a cycle with a position and a pending order on the account.
C19_Witness ==
    \E p \in Cycles :
        /\ NoSignalTick(cyc[p])
        /\ TickerHoldSides # {}
        /\ PendingSides # {}

\* The tick failed before placeTrade: a candle fetch gave null, or the
\* evaluator threw.
FailedEarly(c) == c.fetched = "null" \/ (c.fetched = "candles" /\ c.signals.error # "none")

FailedTick(c) == c.pc = "done" /\ (FailedEarly(c) \/ c.result = "raised")

AllIdle == \A p \in Cycles : cyc[p].pc = "idle"

\* What a failure leaves of its cycle, and what a signal does at any tick.
C20_Safety ==
    \A p \in Cycles :
        LET c == cyc[p] IN
        /\ (c.pc # "idle" /\ FailedEarly(c)) =>
                c.pc = "done" /\ c.log = <<>>
        /\ c.result = "raised" =>
                /\ c.pc = "done"
                /\ LastCall(c.log)[3] = "throw"
                /\ ~Called(c.log, "futuresSubmitOrder", 312, "ok")
        /\ \A line \in {250, 251, 287, 312} :
                Cardinality({j \in DOMAIN c.log : c.log[j][2] = line}) <= 1
        /\ (c.fetched = "candles" /\ c.signals.error = "none"
            /\ (c.signals.buySignal \/ c.signals.sellSignal)) =>
                c.side \in Sides /\ (c.pc = "co_getPositions" \/ c.log # <<>>)

\* C20: a candle fetch failure, or any error thrown inside a cycle (a
\* failed placeTrade included), lets that cycle place no further order and
\* is not retried within it; it never stops the loop: the cycle ends, the
\* timer fires again, and a tick whose fetch succeeds and yields a signal
\* reaches placeTrade.
C20_FailureEndsCycleNotLoop ==
    /\ []C20_Safety
    /\ \A p \in Cycles : FailedTick(cyc[p]) ~> AllIdle
    /\ AllIdle ~> ~AllIdle

\* After an error was logged, a later tick has entered placeTrade.
C20_Witness ==
    \E p \in Cycles :
        /\ errorLogged
        /\ cyc[p].pc = "co_getPositions"
        /\ cyc[p].fetched = "candles"

----------------------------------------------------------------------------
(* The other variants from the close pass to the order: POST /webhook of
   server.js and part_003 (manageTradingAssets: closeOpenPositions with a
   graceful close, then a flash close; cancelAllOrders; placeTrade), and
   placeTrade of part_000 (closeOpposingPositions with the
   closeOpenPositions() it calls, then the leverage and the order). *)

GracefulScripts == {"server.js", "part_003"}

\* The `code` of a response body, by JavaScript type and text.
CodeNumber0 == [type |-> "number", text |-> "0"]
CodeSuccess == [type |-> "string", text |-> "00000"]
CodeFailure == [type |-> "string", text |-> "40001"]

\* futuresClosePositions resolves with one of these bodies, or rejects.
CloseResponses == {CodeNumber0, CodeSuccess, CodeFailure}

\* futuresFlashClosePositions resolves with one of these bodies, or rejects.
FlashCloseResponses == {CodeSuccess, CodeFailure}

\* closeResponse.code === 0
ClosedGracefully(closeResponse) == closeResponse = CodeNumber0

\* The exchange carried the request out: success is code '00000' on the wire
\* (a numeric 0 stands for a client that converts it).
TakesEffect(closeResponse) == closeResponse \in {CodeNumber0, CodeSuccess}

\* server.js:382 position.side === 'buy' ? 'short' : 'long'; part_003:322 position.holdSide
GracefulHoldSide(script, position) ==
    IF script = "server.js"
    THEN (IF JsField(position, "side") = "buy" THEN "short" ELSE "long")
    ELSE position.holdSide

\* Source line of each exchange call of the request.
GracefulLine(script, call) ==
    IF script = "server.js"
    THEN (CASE call = "getFuturesPositions" -> 375
            [] call = "futuresClosePositions" -> 383
            [] call = "futuresFlashClosePositions" -> 392
            [] call = "getFuturesOpenOrders" -> 413
            [] call = "futuresCancelOrder" -> 421
            [] call = "setFuturesLeverage" -> 462
            [] OTHER -> 487)
    ELSE (CASE call = "getFuturesPositions" -> 315
            [] call = "futuresClosePositions" -> 323
            [] call = "futuresFlashClosePositions" -> 333
            [] call = "getFuturesOpenOrders" -> 354
            [] call = "futuresCancelOrder" -> 360
            [] call = "setFuturesLeverage" -> 402
            [] OTHER -> 427)

\* server.js:375 getFuturesPositions({productType}): every position;
\* part_003:315 getFuturesPositions({productType, marginCoin}): those of the
\* margin coin.
GracefulPositions(script) ==
    IF script = "server.js" THEN PositionsData ELSE PositionsOfCoin(MarginCoin)

\* One issued call: its source line, how it ended, the index of the position
\* it was made for (0: none) and the symbol and holdSide it named.
NoTarget == Position("none", "none")

CallEntry(call, line, outcome, i, target) ==
    [call |-> call, line |-> line, outcome |-> outcome, i |-> i, target |-> target]

SetCloser(c) ==
    closer' = c /\ UNCHANGED <<cyc, req, ev, trade, errorLogged, tick, boot, be, plans, quote, tpo>>

\* Pending orders per side on the account a request or signal starts on.
MaxCloserOrders == 1

\* The leverage of a request: absent, or a number.
Leverages == {Undefined, Whole(10)}

\* Any account: every combination of Ticker positions of the two margin
\* coins, with or without a position of another symbol, and pending orders
\* of either side.
InitClosers ==
    /\ positions \in SUBSET ({PositionIn(Ticker, hs, coin) :
                                hs \in HoldSides, coin \in MarginCoins}
                             \cup {Position(OtherSymbol, "short")})
    /\ orders \in [Sides -> 0..MaxCloserOrders]
    /\ cyc = [p \in Cycles |-> IdleCycle]
    /\ req = [r \in Cycles |-> IdleRequest]
    /\ ev = IdleEval
    /\ trade = IdleTrade
    /\ errorLogged = FALSE
    /\ VariantsIdle

\* server.js:517 / part_003:461  POST /webhook with its required fields:
\* manageTradingAssets(symbol) enters closeOpenPositions(symbol, productType).
GC_Start ==
    /\ closer.pc = "idle"
    /\ \E script \in GracefulScripts, side \in Sides, leverage \in Leverages :
        SetCloser([IdleCloser EXCEPT !.pc = "gc_getPositions", !.script = script,
                                     !.side = side, !.leverage = leverage])
    /\ UNCHANGED <<positions, orders>>

\* After position i (or the fetch, i = 0): on to the next position of the
\* symbol, or out of the loop and of closeOpenPositions, into cancelAllOrders.
GracefulNext(c, log) ==
    LET n == NextSymbolPosition(c.list, c.i + 1, Ticker)
    IN  IF n > Len(c.list)
        THEN [c EXCEPT !.pc = "gc_getOpenOrders", !.result = "returned", !.log = log, !.i = n]
        ELSE [c EXCEPT !.pc = "gc_close", !.log = log, !.i = n]

\* closeOpenPositions rethrows (server.js:404-407), manageTradingAssets
\* throws in its turn (356-357) and the handler answers 500 (525).
CloseRaised(c, log) ==
    [c EXCEPT !.pc = "done", !.result = "raised", !.log = log, !.status = 500]

\* server.js:375 / part_003:315  await restClientV2.getFuturesPositions(...)
GC_GetPositions ==
    /\ closer.pc = "gc_getPositions"
    /\ LET line == GracefulLine(closer.script, "getFuturesPositions")
       IN  \/ SetCloser(GracefulNext([closer EXCEPT !.list = GracefulPositions(closer.script)],
                 Append(closer.log, CallEntry("getFuturesPositions", line, "ok", 0, NoTarget))))
           \/ SetCloser(CloseRaised(closer,
                 Append(closer.log, CallEntry("getFuturesPositions", line, "throw", 0, NoTarget))))
    /\ UNCHANGED <<positions, orders>>

\* server.js:383-398 / part_003:323-339  await restClientV2.futuresClosePositions
\* ({symbol, productType, holdSide}) and the test of its code; a rejection
\* leaves the function through the catch, which rethrows.
GC_Close ==
    /\ closer.pc = "gc_close"
    /\ LET line == GracefulLine(closer.script, "futuresClosePositions")
           holdSide == GracefulHoldSide(closer.script, closer.list[closer.i])
       IN  \/ \E closeResponse \in CloseResponses :
                /\ positions' = IF TakesEffect(closeResponse)
                                THEN FlashClosed(Ticker, holdSide)
                                ELSE positions
                /\ LET log == Append(closer.log,
                                CallEntry("futuresClosePositions", line, closeResponse.text, closer.i,
                                          Position(Ticker, holdSide)))
                   IN  IF ClosedGracefully(closeResponse)
                       THEN SetCloser(GracefulNext(closer, log))
                       ELSE SetCloser([closer EXCEPT !.pc = "gc_flash", !.log = log])
           \/ /\ SetCloser(CloseRaised(closer,
                    Append(closer.log, CallEntry("futuresClosePositions", line, "throw", closer.i,
                              Position(Ticker, holdSide)))))
              /\ UNCHANGED positions
    /\ UNCHANGED orders

\* server.js:392-397 / part_003:333-338  await restClientV2.futuresFlashClosePositions(...):
\* whatever it resolves with is logged and the loop goes on; a rejection
\* leaves the function through the catch.
GC_FlashClose ==
    /\ closer.pc = "gc_flash"
    /\ LET line == GracefulLine(closer.script, "futuresFlashClosePositions")
           holdSide == GracefulHoldSide(closer.script, closer.list[closer.i])
       IN  \/ \E flashCloseResponse \in FlashCloseResponses :
                /\ positions' = IF TakesEffect(flashCloseResponse)
                                THEN FlashClosed(Ticker, holdSide)
                                ELSE positions
                /\ SetCloser(GracefulNext(closer, Append(closer.log,
                      CallEntry("futuresFlashClosePositions", line,
                                IF TakesEffect(flashCloseResponse) THEN "ok"
                                ELSE flashCloseResponse.text,
                                closer.i, Position(Ticker, holdSide)))))
           \/ /\ SetCloser(CloseRaised(closer,
                    Append(closer.log, CallEntry("futuresFlashClosePositions", line, "throw", closer.i,
                              Position(Ticker, holdSide)))))
              /\ UNCHANGED positions
    /\ UNCHANGED orders

\* part_003:395  isNaN(leverage) || leverage <= 0
InvalidLeverage(leverage) ==
    ToNumber(leverage) = NaN \/ JsAtMost(leverage, Whole(0))

\* The handler's catch (server.js:523-526 / part_003:479-482) answers 500.
Refused(c, log) == [c EXCEPT !.pc = "done", !.log = log, !.status = 500]

\* manageTradingAssets has returned: the handler calls placeTrade, which in
\* part_003 throws on a leverage that is no positive number (395-397) and
\* else awaits setFuturesLeverage.
EnterPlaceTrade(c) ==
    IF c.script = "part_003" /\ InvalidLeverage(c.leverage)
    THEN [c EXCEPT !.pc = "done", !.ended = "raised", !.status = 500]
    ELSE [c EXCEPT !.pc = "gc_setLeverage"]

\* The loop of cancelAllOrders at order k: server.js sleeps 100 ms before
\* each cancel (420), part_003 cancels at once.
CancelLoopAt(c, k) ==
    [c EXCEPT !.pc = IF c.script = "server.js" THEN "gc_sleep" ELSE "gc_cancel", !.k = k]

\* server.js:413-416 / part_003:354-357  cancelAllOrders: await
\* restClientV2.getFuturesOpenOrders(...), then pendingOrders.length > 0.  The
\* data of the response is the object that holds entrustedList, which has no
\* length, or a list of orders.
GC_GetOpenOrders ==
    /\ closer.pc = "gc_getOpenOrders"
    /\ LET line == GracefulLine(closer.script, "getFuturesOpenOrders")
       IN  \/ \E shape \in {"object", "array"} :
                LET pendingOrders == IF shape = "array" THEN EntrustedList ELSE <<>>
                    c == [closer EXCEPT !.pending = pendingOrders,
                             !.log = Append(@, CallEntry("getFuturesOpenOrders", line, "ok", 0, NoTarget))]
                IN  IF Len(pendingOrders) > 0
                    THEN SetCloser(CancelLoopAt(c, 1))
                    ELSE SetCloser(EnterPlaceTrade(c))
           \/ SetCloser(Refused(closer,
                 Append(closer.log, CallEntry("getFuturesOpenOrders", line, "throw", 0, NoTarget))))
    /\ UNCHANGED <<positions, orders>>

\* server.js:420  await promiseSleep(100)
GC_Sleep ==
    /\ closer.pc = "gc_sleep"
    /\ SetCloser([closer EXCEPT !.pc = "gc_cancel"])
    /\ UNCHANGED <<positions, orders>>

\* server.js:421-425 / part_003:360-364  await restClientV2.futuresCancelOrder
\* ({symbol, orderId}); where the exchange accepts it, the order of this
\* iteration goes.  The response is only logged.
GC_CancelOrder ==
    /\ closer.pc = "gc_cancel"
    /\ \E res \in Responses :
        LET line == GracefulLine(closer.script, "futuresCancelOrder")
            side == closer.pending[closer.k].side
            c == [closer EXCEPT !.log = Append(@,
                     CallEntry("futuresCancelOrder", line, res, closer.k, NoTarget))]
        IN  /\ orders' = IF res = "ok" /\ orders[side] > 0
                         THEN [orders EXCEPT ![side] = @ - 1]
                         ELSE orders
            /\ IF res = "throw"
               THEN SetCloser(Refused(closer, c.log))
               ELSE IF closer.k = Len(closer.pending)
               THEN SetCloser(EnterPlaceTrade(c))
               ELSE SetCloser(CancelLoopAt(c, closer.k + 1))
    /\ UNCHANGED positions

\* placeTrade's catch rethrows (server.js:490-493 / part_003:430-433) and the
\* handler answers 500.
PlaceTradeRaised(c, log) ==
    [c EXCEPT !.pc = "done", !.log = log, !.ended = "raised", !.status = 500]

\* server.js:462 / part_003:402  await restClientV2.setFuturesLeverage(...)
GC_SetLeverage ==
    /\ closer.pc = "gc_setLeverage"
    /\ \E res \in Responses :
        LET line == GracefulLine(closer.script, "setFuturesLeverage")
            log == Append(closer.log, CallEntry("setFuturesLeverage", line, res, 0, NoTarget))
        IN  IF res = "throw"
            THEN SetCloser(PlaceTradeRaised(closer, log))
            ELSE SetCloser([closer EXCEPT !.pc = "gc_submit", !.log = log])
    /\ UNCHANGED <<positions, orders>>

\* server.js:487-489, 522 / part_003:427-429, 478  await
\* restClientV2.futuresSubmitOrder(order); whatever it resolves with is
\* returned and answered 200.
GC_Submit ==
    /\ closer.pc = "gc_submit"
    /\ \E res \in Responses :
        LET line == GracefulLine(closer.script, "futuresSubmitOrder")
            log == Append(closer.log, CallEntry("futuresSubmitOrder", line, res, 0, NoTarget))
        IN  /\ res = "ok" => orders[closer.side] < MaxOrders
            /\ orders' = IF res = "ok"
                         THEN [orders EXCEPT ![closer.side] = @ + 1]
                         ELSE orders
            /\ IF res = "throw"
               THEN SetCloser(PlaceTradeRaised(closer, log))
               ELSE SetCloser([closer EXCEPT !.pc = "done", !.log = log,
                                             !.ended = "returned", !.status = 200])
    /\ UNCHANGED positions

\* part_000.  The loop calls placeTrade(signal) (part_000:109), which enters
\* closeOpposingPositions(signal).
PO_Start ==
    /\ closer.pc = "idle"
    /\ \E side \in Sides :
        SetCloser([IdleCloser EXCEPT !.pc = "po_getPositions", !.script = "part_000",
                                     !.side = side, !.leverage = Whole(10)])
    /\ UNCHANGED <<positions, orders>>

\* closeOpposingPositions has returned (its catch at 309-311 swallows): on
\* in placeTrade to setFuturesLeverage.
OpposingOver(c) == [c EXCEPT !.pc = "po_setLeverage", !.result = "returned"]

\* The order loop of closeOpposingPositions from entry `from` on.
OpposingOrdersNext(c, from) ==
    LET n == NextOpposingOrder(c.pending, from, Ticker, c.side)
    IN  IF n > Len(c.pending)
        THEN OpposingOver([c EXCEPT !.k = n])
        ELSE [c EXCEPT !.pc = "po_cancel", !.k = n]

\* The position loop of closeOpposingPositions from entry `from` on: into
\* closeOpenPositions() for the next opposing position, or on to the orders.
OpposingPositionsNext(c, from) ==
    LET n == NextOpposingPosition(c.list, from, Ticker, c.side)
    IN  IF n > Len(c.list)
        THEN [c EXCEPT !.pc = "po_getOpenOrders", !.i = n]
        ELSE [c EXCEPT !.pc = "in_getPositions", !.i = n]

\* part_000:285  await restClientV2.getFuturesPositions({productType}); the
\* catch at 309-311 logs and the function returns.
PO_GetPositions ==
    /\ closer.pc = "po_getPositions"
    /\ \/ SetCloser(OpposingPositionsNext(
              [closer EXCEPT !.list = PositionsData,
                  !.log = Append(@, CallEntry("getFuturesPositions", 285, "ok", 0, NoTarget))], 1))
       \/ SetCloser(OpposingOver([closer EXCEPT
              !.log = Append(@, CallEntry("getFuturesPositions", 285, "throw", 0, NoTarget))]))
    /\ UNCHANGED <<positions, orders>>

\* part_000:166-172  closeOpenPositions() fetches the positions itself; with
\* none, or on a rejection (catch at 197-199), it returns to the caller's loop.
IN_GetPositions ==
    /\ closer.pc = "in_getPositions"
    /\ \/ LET c == [closer EXCEPT !.inner = PositionsData,
                        !.log = Append(@, CallEntry("getFuturesPositions", 166, "ok", closer.i, NoTarget))]
          IN  IF Len(c.inner) = 0
              THEN SetCloser(OpposingPositionsNext(c, c.i + 1))
              ELSE SetCloser([c EXCEPT !.pc = "in_flash", !.j = 1])
       \/ SetCloser(OpposingPositionsNext(
              [closer EXCEPT !.log = Append(@, CallEntry("getFuturesPositions", 166, "throw", closer.i, NoTarget))],
              closer.i + 1))
    /\ UNCHANGED <<positions, orders>>

\* part_000:176  position.holdSide === 'long' ? 'long' : 'short'
InnerHoldSide(position) == IF position.holdSide = "long" THEN "long" ELSE "short"

\* part_000:174  for (const position of positions): every position fetched.
InnerTargets(c) == c.inner

\* part_000:183-195  await restClientV2.futuresFlashClosePositions(params) for
\* entry j of the loop; a rejection is logged by the .catch and the loop goes on.
IN_FlashClose ==
    /\ closer.pc = "in_flash"
    /\ LET position == InnerTargets(closer)[closer.j]
           target == Position(position.symbol, InnerHoldSide(position))
           after(outcome) ==
               LET c == [closer EXCEPT !.log = Append(@,
                            CallEntry("futuresFlashClosePositions", 183, outcome, closer.i, target))]
               IN  IF closer.j + 1 > Len(InnerTargets(closer))
                   THEN OpposingPositionsNext(c, c.i + 1)
                   ELSE [c EXCEPT !.j = closer.j + 1]
       IN  \/ positions' = FlashClosed(target.symbol, target.holdSide) /\ SetCloser(after("ok"))
           \/ UNCHANGED positions /\ SetCloser(after("throw"))
    /\ UNCHANGED orders

\* part_000:298-299  await restClientV2.getFuturesOpenOrders({symbol, productType})
PO_GetOpenOrders ==
    /\ closer.pc = "po_getOpenOrders"
    /\ \/ SetCloser(OpposingOrdersNext(
              [closer EXCEPT !.pending = EntrustedList,
                  !.log = Append(@, CallEntry("getFuturesOpenOrders", 298, "ok", 0, NoTarget))], 1))
       \/ SetCloser(OpposingOver([closer EXCEPT
              !.log = Append(@, CallEntry("getFuturesOpenOrders", 298, "throw", 0, NoTarget))]))
    /\ UNCHANGED <<positions, orders>>

\* part_000:304 -> 207  cancelAllOrders(symbol): futuresCancelAllOrders for the
\* symbol; a rejection is logged by its .catch.
PO_Cancel ==
    /\ closer.pc = "po_cancel"
    /\ \/ /\ orders' = [s \in Sides |-> 0]
          /\ SetCloser(OpposingOrdersNext(
                [closer EXCEPT !.log = Append(@, CallEntry("futuresCancelAllOrders", 207, "ok", 0, NoTarget))],
                closer.k + 1))
       \/ /\ UNCHANGED orders
          /\ SetCloser(OpposingOrdersNext(
                [closer EXCEPT !.log = Append(@, CallEntry("futuresCancelAllOrders", 207, "throw", 0, NoTarget))],
                closer.k + 1))
    /\ UNCHANGED positions

\* part_000:242  await restClientV2.setFuturesLeverage(...); a rejection
\* leaves placeTrade through its catch (270-273), which rethrows to the loop.
PO_SetLeverage ==
    /\ closer.pc = "po_setLeverage"
    /\ \E res \in Responses :
        LET log == Append(closer.log, CallEntry("setFuturesLeverage", 242, res, 0, NoTarget))
        IN  IF res = "throw"
            THEN SetCloser([closer EXCEPT !.pc = "done", !.log = log, !.ended = "raised"])
            ELSE SetCloser([closer EXCEPT !.pc = "po_submit", !.log = log])
    /\ UNCHANGED <<positions, orders>>

\* part_000:267-269  await restClientV2.futuresSubmitOrder(order); whatever it
\* resolves with is returned.
PO_Submit ==
    /\ closer.pc = "po_submit"
    /\ \E res \in Responses :
        LET log == Append(closer.log, CallEntry("futuresSubmitOrder", 267, res, 0, NoTarget))
        IN  /\ res = "ok" => orders[closer.side] < MaxOrders
            /\ orders' = IF res = "ok"
                         THEN [orders EXCEPT ![closer.side] = @ + 1]
                         ELSE orders
            /\ IF res = "throw"
               THEN SetCloser([closer EXCEPT !.pc = "done", !.log = log, !.ended = "raised"])
               ELSE SetCloser([closer EXCEPT !.pc = "done", !.log = log, !.ended = "returned"])
    /\ UNCHANGED positions

NextClosers ==
    \/ GC_Start \/ GC_GetPositions \/ GC_Close \/ GC_FlashClose
    \/ GC_GetOpenOrders \/ GC_Sleep \/ GC_CancelOrder
    \/ GC_SetLeverage \/ GC_Submit
    \/ PO_Start \/ PO_GetPositions \/ IN_GetPositions \/ IN_FlashClose
    \/ PO_GetOpenOrders \/ PO_Cancel \/ PO_SetLeverage \/ PO_Submit

SpecClosers == InitClosers /\ [][NextClosers]_vars

----------------------------------------------------------------------------
(* One firing of a signal consumer, from the event or timer tick to the
   webhook POST or the placeTrade call it makes: handleWsUpdate and
   sendWebhook of MarketCipherBitgetSDK.js, and the setInterval callbacks of
   part_001 (one timeframe), MASTER.js (four) and part_004 (six).  placeTrade
   is the same text in the three scripts: its awaits are the steps of the
   MASTER.js section, on a frame that carries the script. *)

WsScript == "MarketCipherBitgetSDK.js"

\* MarketCipherBitgetSDK.js calculateMarketCipherSignals: money flow and
\* stochastic RSI only.
wsCalculateMarketCipherSignals(candles) ==
    IF Len(candles) = 0 THEN TypeError
    ELSE LET moneyFlow == LastOf(calculateMoneyFlow(Hlc3(candles)))
             stochasticRSI == LastOf(calculateStochasticRSI(candles))
         IN  Signals(/\ JsGreater(moneyFlow, Whole(0))
                     /\ JsLess(stochasticRSI, Rat(2, 10)),
                     /\ JsLess(moneyFlow, Whole(0))
                     /\ JsGreater(stochasticRSI, Rat(8, 10)),
                     Close(candles[Len(candles)]))

\* Longest event.data of a candle update followed.
MaxWsCandles == 2

\* event.data of the updates: every array of up to MaxWsCandles candles.
WsData == UNION {[1..n -> Shapes] : n \in 0..MaxWsCandles}

\* event.arg.instType of the updates the client delivers.
WsInstTypes == {"candle1m", "ticker"}

\* handleWsUpdate's if / else if on the two signals.
WsBranch(signals) ==
    IF signals.buySignal THEN "buy"
    ELSE IF signals.sellSignal THEN "sell"
    ELSE "noAction"

\* part_004:222-242  the branch on the signals gathered over the timeframes,
\* here without its `&& !activeSellSignal` / `&& !activeBuySignal`.
MultiTimeframeBranchAnySignal(activeBuySignal, activeSellSignal) ==
    IF activeBuySignal THEN "buy"
    ELSE IF activeSellSignal THEN "sell"
    ELSE "noAction"

MultiTimeframeBranch(activeBuySignal, activeSellSignal) ==
    IF activeBuySignal /\ ~activeSellSignal THEN "buy"
    ELSE IF activeSellSignal /\ ~activeBuySignal THEN "sell"
    ELSE "noAction"

\* What one awaited fetchCandleData gives the loop: null, or candles, with
\* what the evaluator makes of them.
NoCandles == [candles |-> FALSE, signals |-> Signals(FALSE, FALSE, Undefined)]

Candles(signals) == [candles |-> TRUE, signals |-> signals]

\* MASTER.js evaluates the 15m candles only; of the other timeframes the loop
\* looks at nothing but their presence.
FetchOutcomes(script, timeframe) ==
    IF script = "MASTER.js" /\ timeframe # "15m"
    THEN {NoCandles, Candles(NoCandles.signals)}
    ELSE {NoCandles} \cup {Candles(signals) : signals \in SignalOutcomes}

SetTick(t) ==
    tick' = t /\ UNCHANGED <<cyc, req, ev, trade, errorLogged, closer, boot, be, plans, quote, tpo>>

\* Pending orders per side on the account a firing starts on.
MaxTickOrders == 1

\* The account as the firing finds it: any Ticker positions, up to
\* MaxTickOrders pending orders per side, and a position of another symbol.
InitTicks ==
    /\ positions \in {S \cup {Position(OtherSymbol, "short")} :
                        S \in SUBSET {Position(Ticker, hs) : hs \in HoldSides}}
    /\ orders \in [Sides -> 0..MaxTickOrders]
    /\ cyc = [p \in Cycles |-> IdleCycle]
    /\ req = [r \in Cycles |-> IdleRequest]
    /\ ev = IdleEval
    /\ trade = IdleTrade
    /\ errorLogged = FALSE
    /\ VariantsIdle

\* MarketCipherBitgetSDK.js:157-199  handleWsUpdate(event) up to its await.
WS_Update ==
    /\ tick.pc = "idle"
    /\ \E instType \in WsInstTypes, data \in WsData :
        LET t == [IdleTick EXCEPT !.script = WsScript]
            signals == wsCalculateMarketCipherSignals(CandlesOf(data))
            branch == WsBranch(signals)
        IN  IF instType # "candle1m" THEN SetTick(Ended(t, "returned"))
            ELSE IF signals.error # "none" THEN SetTick(Ended(t, "rejected"))
            ELSE IF branch \in Sides
            THEN SetTick([t EXCEPT !.pc = "sendWebhook", !.signals = signals,
                                   !.side = branch, !.price = signals.latestPrice])
            ELSE SetTick(Ended([t EXCEPT !.signals = signals], "returned"))
    /\ UNCHANGED <<positions, orders>>

\* How the POST ended: response.ok, another status, or a failed fetch.
PostOutcomes == {"ok", "notOk", "throw"}

CallOf(call, t, outcome) ==
    [call |-> call, side |-> t.side, price |-> t.price, outcome |-> outcome]

\* A sender that posts again until the webhook answers ok.
WebhookRetried(t, outcome) ==
    IF outcome = "ok" THEN Ended(t, "returned") ELSE t

\* MarketCipherBitgetSDK.js:122-129  an ok answer and a failed fetch are
\* logged, sendWebhook returns and so does the handler; for another status
\* the body of the answer is awaited first (line 125).
WebhookAfter(t, outcome) ==
    IF outcome = "notOk" THEN [t EXCEPT !.pc = "responseText"]
    ELSE Ended(t, "returned")

\* MarketCipherBitgetSDK.js:104  await fetch(webhookUrl, {method: 'POST', ...}).
\* The order, if any, is placed by the process that serves /webhook.
WS_SendWebhook ==
    /\ tick.pc = "sendWebhook"
    /\ \E outcome \in PostOutcomes :
        SetTick(WebhookAfter(
            [tick EXCEPT !.calls = Append(@, CallOf("sendWebhook", tick, outcome))],
            outcome))
    /\ UNCHANGED <<positions, orders>>

\* MarketCipherBitgetSDK.js:125  await response.text() inside the
\* console.error: the body comes and the line is logged, or reading it fails
\* and the catch logs that; the handler returns either way.
WS_ResponseText ==
    /\ tick.pc = "responseText"
    /\ SetTick(Ended(tick, "returned"))
    /\ UNCHANGED <<positions, orders>>

\* setInterval fires: the callback starts on its first timeframe.
TK_Start ==
    /\ tick.pc = "idle"
    /\ \E script \in TimerScripts :
        SetTick([IdleTick EXCEPT !.pc = "fetch", !.script = script, !.k = 1])
    /\ UNCHANGED <<positions, orders>>

\* The code after the last fetch: the evaluation (MASTER.js:131,
\* part_001:188) and the branch that calls placeTrade, which runs up to its
\* first await, or logs.
AfterFetches(t) ==
    LET branch == IF t.script = "part_004"
                  THEN MultiTimeframeBranch(t.activeBuySignal, t.activeSellSignal)
                  ELSE LoopBranch(t.signals)
    IN  IF branch = "caught" THEN Ended(t, "caught")
        ELSE IF branch \in Sides
        THEN LET u == [t EXCEPT !.pc = "placeTrade", !.side = branch,
                                !.price = IF t.script = "part_004" THEN t.latestPrice
                                          ELSE t.signals.latestPrice]
             IN  [u EXCEPT !.calls = Append(@, CallOf("placeTrade", u, "pending"))]
        ELSE Ended(t, "returned")

\* The statement after a missing candle array: part_004:202 continue;
\* MASTER.js:127 and part_001:185 return.
OnNoCandles(t) ==
    IF t.script = "part_004"
    THEN (IF t.k = Len(Timeframes(t.script))
          THEN AfterFetches([t EXCEPT !.k = t.k + 1])
          ELSE [t EXCEPT !.k = t.k + 1])
    ELSE Ended(t, "returned")

\* The body of the loop for candles that came: part_004:205-218 evaluates them
\* at once (a TypeError leaves through the catch); MASTER.js keeps them and
\* evaluates the 15m ones after the loop.
OnCandles(t, timeframe, signals) ==
    LET u == IF t.script = "part_004"
             THEN IF signals.error # "none" THEN Ended(t, "caught")
                  ELSE [t EXCEPT !.activeBuySignal = @ \/ signals.buySignal,
                                 !.activeSellSignal = @ \/ signals.sellSignal,
                                 !.latestPrice = signals.latestPrice]
             ELSE IF t.script = "part_001" \/ timeframe = "15m"
                  THEN [t EXCEPT !.signals = signals]
                  ELSE t
    IN  IF u.pc = "done" THEN u
        ELSE IF t.k = Len(Timeframes(t.script))
        THEN AfterFetches([u EXCEPT !.k = t.k + 1])
        ELSE [u EXCEPT !.k = t.k + 1]

\* placeTrade entered for the signal of the callback: what it finds on the
\* account is kept with the frame.
PlaceTradeFrame(t) ==
    [IdleCycle EXCEPT !.pc = "co_getPositions", !.script = t.script, !.side = t.side,
                      !.startPos = TickerHoldSides, !.startOrd = PendingSides]

\* The callback goes on to t; when that takes it into placeTrade, the frame
\* of placeTrade stands at its first await.  logged: the callback has
\* written a console.error line in this step.
SetTickFrame(t, logged) ==
    /\ tick' = t
    /\ cyc' = IF t.pc = "placeTrade" THEN [cyc EXCEPT ![1] = PlaceTradeFrame(t)] ELSE cyc
    /\ errorLogged' = (errorLogged \/ logged)
    /\ UNCHANGED <<req, ev, trade, closer, boot, be, plans, quote, tpo>>

\* part_001:182, MASTER.js:124, part_004:199  await fetchCandleData(ticker,
\* timeframe) is answered.  A null is logged (part_001:184, MASTER.js:126,
\* part_004:201), and so is an error caught by the loop (part_001:203,
\* MASTER.js:146, part_004:244).
TK_Fetch ==
    /\ tick.pc = "fetch"
    /\ LET timeframe == Timeframes(tick.script)[tick.k]
       IN  \E outcome \in FetchOutcomes(tick.script, timeframe) :
            LET t == [tick EXCEPT !.seen = Append(@,
                        [timeframe |-> timeframe, candles |-> outcome.candles,
                         signals |-> outcome.signals])]
                u == IF outcome.candles THEN OnCandles(t, timeframe, outcome.signals)
                     ELSE OnNoCandles(t)
            IN  SetTickFrame(u, ~outcome.candles \/ u.ended = "caught")
    /\ UNCHANGED <<positions, orders>>

\* part_001:192, MASTER.js:135, part_004:224/233  await placeTrade({...}):
\* one awaited exchange call of placeTrade is answered.  The step that
\* settles placeTrade ends the callback.
TK_PlaceTrade ==
    /\ tick.pc = "placeTrade"
    /\ PlaceTradeStep(1)

NextTicks ==
    \/ WS_Update \/ WS_SendWebhook \/ WS_ResponseText
    \/ TK_Start \/ TK_Fetch \/ TK_PlaceTrade

SpecTicks == InitTicks /\ [][NextTicks]_vars

----------------------------------------------------------------------------
(* MASTER.js: loading the script.  The top-level statements run in one
   synchronous pass; process.exit ends the pass and the process. *)

\* process.env values: unset, set to the empty string, set.
EnvValues == {Undefined, Str(""), Str("set")}

Environments ==
    [API_KEY : EnvValues, API_SECRET : EnvValues, API_PASSPHRASE : EnvValues,
     PORT : {Undefined, Str("8080")}]

\* MASTER.js:15  !(!API_KEY || !API_SECRET || !API_PASSPHRASE)
CredentialsPresent(env) ==
    ~(~Truthy(env.API_KEY) \/ ~Truthy(env.API_SECRET) \/ ~Truthy(env.API_PASSPHRASE))

\* The top-level statements with the credential check moved behind them.
TopLevelCheckLast ==
    <<"newWebsocketClientV2", "newRestClientV2", "listen", "setIntervalTradingLoop",
      "fetchOpenPositionsAndOrders", "setIntervalPnL", "checkCredentials">>

\* The top-level statements of MASTER.js that act, in source order: lines 15,
\* 21, 27, 34, 118, 322 and 367.
TopLevel ==
    <<"checkCredentials", "newWebsocketClientV2", "newRestClientV2", "listen",
      "setIntervalTradingLoop", "fetchOpenPositionsAndOrders", "setIntervalPnL">>

\* One top-level statement on the process state.  The function called at
\* line 322 runs within the pass up to its first await: getFuturesPositions
\* (line 158) is issued there, and what follows it is left pending.
Statement(b, s) ==
    CASE s = "checkCredentials" ->
            IF CredentialsPresent(b.env) THEN b
            ELSE [b EXCEPT !.pc = "exited", !.exitCode = 1, !.errorLogged = TRUE]
      [] s = "newWebsocketClientV2" -> [b EXCEPT !.clients = @ \cup {"wsClient"}]
      [] s = "newRestClientV2" -> [b EXCEPT !.clients = @ \cup {"restClientV2"}]
      [] s = "listen" ->
            [b EXCEPT !.listening = IF b.env.PORT = Undefined THEN "3000" ELSE b.env.PORT[2]]
      [] s = "setIntervalTradingLoop" -> [b EXCEPT !.timers = @ \cup {"tradingLoop"}]
      [] s = "fetchOpenPositionsAndOrders" ->
            [b EXCEPT !.timers = @ \cup {"startup"}, !.calls["startup"] = @ + 1]
      [] s = "setIntervalPnL" -> [b EXCEPT !.timers = @ \cup {"pnl"}]

RECURSIVE RunTopLevel(_, _)
RunTopLevel(b, statements) ==
    IF statements = <<>> \/ b.pc = "exited" THEN b
    ELSE RunTopLevel(Statement(b, Head(statements)), Tail(statements))

\* Exchange calls followed per source once the script runs.
MaxBootCalls == 2

SetBoot(b) ==
    boot' = b /\ UNCHANGED <<cyc, req, ev, trade, errorLogged, closer, tick, be, plans, quote, tpo>>

InitBoot ==
    /\ positions = {Position(OtherSymbol, "short")}
    /\ orders = [s \in Sides |-> 0]
    /\ cyc = [p \in Cycles |-> IdleCycle]
    /\ req = [r \in Cycles |-> IdleRequest]
    /\ ev = IdleEval
    /\ trade = IdleTrade
    /\ errorLogged = FALSE
    /\ closer = IdleCloser
    /\ tick = IdleTick
    /\ be = IdleBE
    /\ plans = <<>>
    /\ quote = NoQuote
    /\ tpo = IdleTP
    /\ boot \in {[IdleBoot EXCEPT !.pc = "loading", !.env = env] : env \in Environments}

\* node MASTER.js: the synchronous pass over the top-level statements.
BT_Load ==
    /\ boot.pc = "loading"
    /\ SetBoot(LET b == RunTopLevel(boot, TopLevel)
               IN  IF b.pc = "exited" THEN b ELSE [b EXCEPT !.pc = "running"])
    /\ UNCHANGED <<positions, orders>>

\* A pending callback of the running process issues an exchange call through
\* the REST client: the start-up fetch past its first await (MASTER.js:159),
\* a trading-loop tick (118) or a PnL tick (338).
BT_ExchangeCall ==
    /\ boot.pc = "running"
    /\ \E source \in boot.timers :
        /\ "restClientV2" \in boot.clients
        /\ boot.calls[source] < MaxBootCalls
        /\ source = "startup" => boot.calls[source] < 2
        /\ SetBoot([boot EXCEPT !.calls[source] = @ + 1])
    /\ UNCHANGED <<positions, orders>>

NextBoot == BT_Load \/ BT_ExchangeCall

SpecBoot == InitBoot /\ [][NextBoot]_vars

----------------------------------------------------------------------------
(* adjustStopLossToBreakEven of part_001 and part_004: the poll (setInterval),
   the delayed timers it arms (setTimeout) and the plan orders of the symbol
   on the exchange.  A callback runs to its next await in one step; the
   awaited call takes effect and resolves, or fails, in the next; the
   interval may fire again while a poll is awaiting. *)

BreakEvenScripts == {"part_001", "part_004"}

\* Polls followed, timers armed and not yet over, plan orders the book holds.
MaxPolls == 2
MaxTimers == 2
MaxPlans == 3

\* parseFloat of a field of the response: '', undefined and null are NaN.
ParseFloat(v) == IF v \in {Str(""), Undefined, Null} THEN NaN ELSE v

\* parseFloat(v).toFixed(1) for a price that is no tie at the second decimal.
ToFixed1(v) ==
    LET x == ParseFloat(v)
    IN  IF x = NaN THEN NaN ELSE JsDiv(MathRound(JsMul(x, Whole(10))), Whole(10))

\* isNaN(stopLossPrice) || stopLossPrice <= 0
InvalidStopLossPrice(stopLossPrice) ==
    stopLossPrice = NaN \/ ~JsGreater(stopLossPrice, Whole(0))

\* What getFuturesPosition reports of the position besides its side: the
\* unrealised PnL, the break-even price ('' while the exchange has none) and
\* the size available.
Quote(unrealizedPL, breakEvenPrice, available) ==
    [unrealizedPL |-> unrealizedPL, breakEvenPrice |-> breakEvenPrice,
     available |-> available]

\* The position in and out of profit, with another size once a part of it
\* was closed or it was added to, and a response that leaves a field out or
\* null.
Quotes ==
    {Quote(Whole(-5), Rat(10004, 100), Rat(3, 1000))}
    \cup {Quote(Whole(5), bep, Rat(3, 1000)) :
            bep \in {Str(""), Null, Rat(10004, 100), Rat(10014, 100), Rat(10006, 100)}}
    \cup {Quote(Whole(5), Rat(10004, 100), Rat(2, 1000))}
    \cup {Quote(Undefined, Rat(10004, 100), Rat(3, 1000))}

PlanOrder(id, planType, triggerPrice) ==
    [orderId |-> id, planType |-> planType, triggerPrice |-> triggerPrice]

\* The plan orders the symbol carries when the script starts: none, the
\* initial stop-loss the order was placed with, and break-even stops of
\* earlier runs beside it.
InitialPlans ==
    {<<>>,
     <<PlanOrder(1, "loss_plan", Whole(99))>>,
     <<PlanOrder(1, "loss_plan", Whole(99)), PlanOrder(2, "pos_loss", Whole(100))>>,
     <<PlanOrder(2, "pos_loss", Rat(1001, 10)), PlanOrder(1, "loss_plan", Whole(99))>>,
     <<PlanOrder(1, "profit_plan", Whole(105)), PlanOrder(2, "loss_plan", Whole(99))>>}

StopLossTypes == {"loss_plan", "pos_loss"}

HasStopLoss(list) == \E j \in DOMAIN list : list[j].planType \in StopLossTypes

\* array.find(order => order.planType === planType): the index of the first
\* one, 0 for undefined.
Find(list, planType) ==
    LET M == {j \in DOMAIN list : list[j].planType = planType}
    IN  IF M = {} THEN 0 ELSE Min(M)

RemoveId(list, id) == SelectSeq(list, LAMBDA o : o.orderId # id)

SetBE(b) ==
    be' = b /\ UNCHANGED <<cyc, req, ev, trade, errorLogged, closer, tick, boot, tpo>>

InitBreakEven ==
    /\ positions \in {{}, {Position(Ticker, "long")}}
    /\ orders = [s \in Sides |-> 0]
    /\ cyc = [p \in Cycles |-> IdleCycle]
    /\ req = [r \in Cycles |-> IdleRequest]
    /\ ev = IdleEval
    /\ trade = IdleTrade
    /\ errorLogged = FALSE
    /\ closer = IdleCloser
    /\ tick = IdleTick
    /\ boot = IdleBoot
    /\ plans \in IF positions = {} THEN {<<>>} ELSE InitialPlans
    /\ quote \in IF positions = {} THEN {NoQuote} ELSE Quotes
    /\ tpo = IdleTP
    /\ be \in {[IdleBE EXCEPT !.script = script,
                             !.hadInitial = (Find(plans, "loss_plan") # 0),
                             !.nextId = 3] : script \in BreakEvenScripts}

\* The market moves: PnL and break-even price of the position change.
QuoteMoves ==
    /\ Position(Ticker, "long") \in positions
    /\ \E q \in Quotes \ {quote} : quote' = q
    /\ UNCHANGED <<positions, orders, plans, be, cyc, req, ev, trade, errorLogged,
                   closer, tick, boot, tpo>>

\* The position is closed: by its stop-loss or take-profit, by a signal of the
\* other side, or by hand.
PositionCloses ==
    /\ Position(Ticker, "long") \in positions
    /\ positions' = positions \ {Position(Ticker, "long")}
    /\ quote' = NoQuote
    /\ UNCHANGED <<orders, plans, be, cyc, req, ev, trade, errorLogged,
                   closer, tick, boot, tpo>>

\* A poll at its first await, and one that is over.
BEFrame ==
    [pc |-> "getFuturesPosition",
     position |-> [symbol |-> "none", holdSide |-> "none",
                   unrealizedPL |-> Whole(0), available |-> Whole(0),
                   breakEvenPrice |-> <<"string", "">>],
     list |-> <<>>, clist |-> <<>>, ci |-> 0]

BEOver == [BEFrame EXCEPT !.pc = "over"]

\* Poll c is over.
PollOver(b, c) == [b EXCEPT !.frames[c] = BEOver]

\* part_004:619-653 / part_001:501-540  setTimeout(...): the timer keeps the
\* break-even price, the size and the side of the position as the poll read
\* them.
Schedule(b, c) ==
    PollOver([b EXCEPT
        !.timers = Append(@, [breakEvenPrice |-> b.frames[c].position.breakEvenPrice,
                              available |-> b.frames[c].position.available,
                              holdSide |-> b.frames[c].position.holdSide,
                              phase |-> "pending"]),
        !.scheduled = Append(@, [position |-> b.frames[c].position,
                                 list |-> b.frames[c].list])], c)

\* setInterval fires: the callback starts with its getFuturesPosition call,
\* whatever the earlier polls are doing.
BE_Poll ==
    /\ Len(be.frames) < MaxPolls
    /\ Len(be.timers) < MaxTimers
    /\ SetBE([be EXCEPT !.frames = Append(@, BEFrame)])
    /\ UNCHANGED <<positions, orders, plans, quote>>

\* positionsResponse.data for {symbol: 'SBTCSUSDT'}
PositionData ==
    IF Position(Ticker, "long") \in positions
    THEN <<[symbol |-> Ticker, holdSide |-> "long",
            unrealizedPL |-> quote.unrealizedPL,
            available |-> quote.available,
            breakEvenPrice |-> quote.breakEvenPrice]>>
    ELSE <<>>

\* part_001:485-543  the loop body for the position: skipped once the symbol
\* is marked adjusted, a timer when it is in profit.
Part001Position(b, c, position) ==
    IF position.symbol \in b.adjustedPositions THEN PollOver(b, c)
    ELSE IF JsGreater(position.unrealizedPL, Whole(0))
    THEN Schedule([b EXCEPT !.frames[c].position = position], c)
    ELSE PollOver(b, c)

\* part_004:588-594  !breakEvenPrice || unrealizedPL <= 0 skips the position;
\* else on to hasExistingStopLoss.
Part004Position(b, c, position) ==
    IF ~Truthy(position.breakEvenPrice) \/ JsAtMost(position.unrealizedPL, Whole(0))
    THEN PollOver(b, c)
    ELSE [b EXCEPT !.frames[c].pc = "hasExistingStopLoss",
                   !.frames[c].position = position]

\* Poll c stands at this await.
PollAt(c, pc) == c \in DOMAIN be.frames /\ be.frames[c].pc = pc

\* part_001:466-483 / part_004:568-583  await restClientV2.getFuturesPosition:
\* a rejection or a code other than '00000' ends the poll; so does an empty
\* list, which in part_001 also clears adjustedPositions.
BE_GetFuturesPosition(c) ==
    /\ PollAt(c, "getFuturesPosition")
    /\ \/ \E response \in {"rejected", "throw"} : SetBE(PollOver(be, c))
       \/ IF Len(PositionData) = 0
          THEN SetBE(PollOver([be EXCEPT !.adjustedPositions =
                        IF be.script = "part_001" THEN {} ELSE @], c))
          ELSE IF be.script = "part_001"
          THEN SetBE(Part001Position(be, c, PositionData[1]))
          ELSE SetBE(Part004Position(be, c, PositionData[1]))
    /\ UNCHANGED <<positions, orders, plans, quote>>

\* part_004:595-617  what the poll does with the plan orders it fetched.
OnStopLossOrders(b, c, stopLossOrders) ==
    LET initialSLOrder == Find(stopLossOrders, "loss_plan")
        existingBreakEvenOrder == Find(stopLossOrders, "pos_loss")
        breakEvenPriceFloat == ToFixed1(b.frames[c].position.breakEvenPrice)
        d == [b EXCEPT !.frames[c].list = stopLossOrders]
    IN  IF initialSLOrder = 0 THEN PollOver(d, c)
        ELSE IF existingBreakEvenOrder # 0
        THEN IF ToFixed1(stopLossOrders[existingBreakEvenOrder].triggerPrice) = breakEvenPriceFloat
             THEN PollOver(d, c)
             ELSE [d EXCEPT !.frames[c].pc = "cancelPreviousStopLoss"]
        ELSE Schedule(d, c)

\* part_004:594 -> 538  await restClientV2.getFuturesPlanOrders({planType:
\* 'profit_loss', symbol}); every failure gives the empty list.
BE_HasExistingStopLoss(c) ==
    /\ PollAt(c, "hasExistingStopLoss")
    /\ \E stopLossOrders \in {plans, <<>>} : SetBE(OnStopLossOrders(be, c, stopLossOrders))
    /\ UNCHANGED <<positions, orders, plans, quote>>

\* part_004:502-504  cancelPreviousStopLoss fetches the plan orders again.
BE_CancelFetch(c) ==
    /\ PollAt(c, "cancelPreviousStopLoss")
    /\ \E stopLossOrders \in {plans, <<>>} :
        IF Len(stopLossOrders) > 0
        THEN SetBE([be EXCEPT !.frames[c].pc = "futuresCancelPlanOrder",
                              !.frames[c].clist = stopLossOrders,
                              !.frames[c].ci = 1])
        ELSE SetBE(Schedule(be, c))
    /\ UNCHANGED <<positions, orders, plans, quote>>

\* part_004:506-521  await restClientV2.futuresCancelPlanOrder({orderId}) for
\* every order of that list, whatever its planType; a failed cancel is
\* logged, a rejection leaves the loop through the catch at 523.
BE_CancelPlanOrder(c) ==
    /\ PollAt(c, "futuresCancelPlanOrder")
    /\ LET f == be.frames[c]
           after == IF f.ci = Len(f.clist) THEN Schedule(be, c)
                    ELSE [be EXCEPT !.frames[c].ci = @ + 1]
       IN  \/ /\ plans' = RemoveId(plans, f.clist[f.ci].orderId)
              /\ SetBE(after)
           \/ UNCHANGED plans /\ SetBE(after)
           \/ UNCHANGED plans /\ SetBE(Schedule(be, c))
    /\ UNCHANGED <<positions, orders, quote>>

WithoutTimer(b, n) ==
    [b EXCEPT !.timers = SubSeq(@, 1, n - 1) \o SubSeq(@, n + 1, Len(@))]

\* part_001:508-519 / part_004:628-639  the payload of the submit, from the
\* values the timer holds.
Payload(timer) ==
    [symbol |-> Ticker, planType |-> "pos_loss",
     triggerPrice |-> ToFixed1(timer.breakEvenPrice),
     holdSide |-> timer.holdSide, size |-> timer.available]

\* part_001:501-527 / part_004:620-642  a timer fires: the callback up to its
\* await of futuresSubmitTPSLOrder.  part_001 returns when the symbol is
\* marked adjusted; both return on an invalid price.  fired keeps the payload
\* of the latest submit beside the position the exchange held at that moment.
BE_TimerFires ==
    /\ \E n \in DOMAIN be.timers :
        /\ be.timers[n].phase = "pending"
        /\ LET stopLossPrice == ToFixed1(be.timers[n].breakEvenPrice)
           IN  IF be.script = "part_001" /\ Ticker \in be.adjustedPositions
               THEN SetBE(WithoutTimer(be, n))
               ELSE IF InvalidStopLossPrice(stopLossPrice)
               THEN SetBE(WithoutTimer(be, n))
               ELSE SetBE([be EXCEPT
                        !.timers[n].phase = "inflight",
                        !.fired = <<[payload |-> Payload(be.timers[n]),
                                     data |-> PositionData]>>])
    /\ UNCHANGED <<positions, orders, plans, quote>>

\* part_001:527-539 / part_004:642-652  the submit takes effect and resolves
\* with '00000' (part_001 then marks the symbol), resolves with an error
\* code, or rejects.
BE_SubmitTPSLOrder ==
    /\ \E n \in DOMAIN be.timers :
        /\ be.timers[n].phase = "inflight"
        /\ \/ /\ Len(plans) < MaxPlans
              /\ plans' = Append(plans, PlanOrder(be.nextId, "pos_loss",
                                    Payload(be.timers[n]).triggerPrice))
              /\ SetBE([WithoutTimer(be, n) EXCEPT
                    !.nextId = @ + 1,
                    !.accepted = @ + 1,
                    !.adjustedPositions = IF be.script = "part_001"
                                          THEN @ \cup {Ticker} ELSE @])
           \/ UNCHANGED plans /\ SetBE(WithoutTimer(be, n))
    /\ UNCHANGED <<positions, orders, quote>>

NextBreakEven ==
    \/ QuoteMoves \/ PositionCloses
    \/ BE_Poll
    \/ \E c \in 1..MaxPolls : BE_GetFuturesPosition(c)
    \/ \E c \in 1..MaxPolls : BE_HasExistingStopLoss(c)
    \/ \E c \in 1..MaxPolls : BE_CancelFetch(c)
    \/ \E c \in 1..MaxPolls : BE_CancelPlanOrder(c)
    \/ BE_TimerFires \/ BE_SubmitTPSLOrder

SpecBreakEven == InitBreakEven /\ [][NextBreakEven]_vars

----------------------------------------------------------------------------
(* calculateTPOrders of part_004 and the 5-minute interval that calls it.
   The position is the exchange's and does not change here; a call of
   calculateTPOrders runs to its next await in one step, the awaited call
   takes effect and resolves, or fails, in the next, and the interval may
   fire again in between. *)

\* Monitoring cycles followed.
MaxTPCycles == 2

\* a >= b on JavaScript numbers: false when either is NaN.
JsAtLeast(x, y) == x # NaN /\ y # NaN /\ ~JsLess(x, y)

\* x.toFixed(f) for an x that is no tie at the next decimal.
ToFixed(x, f) == JsDiv(MathRound(JsMul(x, Whole(10 ^ f))), Whole(10 ^ f))

\* What getFuturesPosition reports of the position for the take-profit
\* monitor.
TPQuote(available, unrealizedPL, marginSize, openPriceAvg) ==
    [available |-> available, unrealizedPL |-> unrealizedPL,
     marginSize |-> marginSize, openPriceAvg |-> openPriceAvg,
     breakEvenPrice |-> Str("")]

\* Sizes below, at and above the 0.001 step; PnL below, at and above the two
\* thresholds of a margin of 10, and a PnL field that is no number.
TPQuotes ==
    {TPQuote(available, unrealizedPL, Whole(10), Whole(100)) :
        available \in {Whole(0), Rat(5, 10000), Rat(1, 1000), Rat(2, 1000),
                       Rat(3, 1000), Rat(5, 1000)},
        unrealizedPL \in {Whole(-5), Whole(4), Whole(5), Whole(14), Whole(15),
                          Whole(20), Str("")}}

\* part_004:678  positionResponse.data for {symbol}
TPPositionData ==
    IF \E hs \in HoldSides : Position(Ticker, hs) \in positions
    THEN LET hs == CHOOSE h \in HoldSides : Position(Ticker, h) \in positions
         IN  <<[symbol |-> Ticker, holdSide |-> hs, available |-> quote.available,
                unrealizedPL |-> quote.unrealizedPL, marginSize |-> quote.marginSize,
                openPriceAvg |-> quote.openPriceAvg]>>
    ELSE <<>>

\* part_004:686  Math.min(3, Math.floor(tpAmount / 0.001))
maxTPOrders(tpAmount) ==
    IF tpAmount = NaN THEN NaN
    ELSE MathMin(Whole(3), MathFloor(JsDiv(tpAmount, Rat(1, 1000))))

\* part_004:696-703  the percentages pushed for the thresholds the PnL has
\* reached.
tpPercentages(unrealizedPL, marginSize) ==
    (IF JsAtLeast(ParseFloat(unrealizedPL), JsMul(ParseFloat(marginSize), Rat(1, 2)))
     THEN <<Rat(105, 100)>> ELSE <<>>)
    \o (IF JsAtLeast(ParseFloat(unrealizedPL), JsMul(ParseFloat(marginSize), Rat(3, 2)))
        THEN <<Rat(110, 100)>> ELSE <<>>)

\* The loop bound without the cap by the size.
tpOrdersToPlaceByThresholds(max, percentages) == Whole(Len(percentages))

\* part_004:705  Math.min(maxTPOrders, tpPercentages.length)
tpOrdersToPlace(max, percentages) ==
    IF max = NaN THEN NaN ELSE MathMin(max, Whole(Len(percentages)))

\* part_004:711-713  the take-profit price of an order.
tpPrice(holdSide, openPriceAvg, percent) ==
    IF holdSide = "long"
    THEN ToFixed(JsMul(openPriceAvg, percent), 2)
    ELSE ToFixed(JsMul(openPriceAvg, JsSub(Whole(1), JsSub(percent, Whole(1)))), 2)

\* part_004:715  (tpAmount / tpOrdersToPlace).toFixed(6)
tpSize(tpAmount, n) == ToFixed(JsDiv(tpAmount, n), 6)

\* part_004:717-732  tpPayload
tpPayload(position, n, percentages, i) ==
    [planType |-> "normal_plan", symbol |-> position.symbol,
     size |-> tpSize(ParseFloat(position.available), n),
     price |-> tpPrice(position.holdSide, position.openPriceAvg, percentages[i + 1]),
     side |-> IF position.holdSide = "long" THEN "sell" ELSE "buy",
     tradeSide |-> "close"]

SetTP(t) ==
    tpo' = t /\ UNCHANGED <<cyc, req, ev, trade, errorLogged, closer, tick, boot, be>>

InitTP ==
    /\ positions \in {{}} \cup {{Position(Ticker, hs)} : hs \in HoldSides}
    /\ orders = [s \in Sides |-> 0]
    /\ cyc = [p \in Cycles |-> IdleCycle]
    /\ req = [r \in Cycles |-> IdleRequest]
    /\ ev = IdleEval
    /\ trade = IdleTrade
    /\ errorLogged = FALSE
    /\ closer = IdleCloser
    /\ tick = IdleTick
    /\ boot = IdleBoot
    /\ be = IdleBE
    /\ plans = <<>>
    /\ quote \in IF positions = {} THEN {NoQuote} ELSE TPQuotes
    /\ tpo = IdleTP

\* A call of calculateTPOrders at its first await, and one that is over.
TPFrame ==
    [pc |-> "getFuturesPosition", data |-> <<>>, n |-> Whole(0),
     percentages |-> <<>>, i |-> 0]

TPOver == [TPFrame EXCEPT !.pc = "over"]

SetFrame(c, f) == SetTP([tpo EXCEPT !.frames[c] = f])

\* part_004:754-760  the interval fires: calculateTPOrders("SBTCSUSDT") up to
\* its await of getFuturesPosition, whatever the earlier calls are doing.
TP_Interval ==
    /\ Len(tpo.frames) < MaxTPCycles
    /\ SetTP([tpo EXCEPT !.frames = Append(@, TPFrame)])
    /\ UNCHANGED <<positions, orders, plans, quote>>

\* part_004:678-707  from the position fetched to the first submit, or to the
\* return.
OnPosition(t, data) ==
    IF Len(data) = 0 THEN TPOver
    ELSE LET position == data[1]
             tpAmount == ParseFloat(position.available)
             percentages == tpPercentages(position.unrealizedPL, position.marginSize)
             n == tpOrdersToPlace(maxTPOrders(tpAmount), percentages)
         IN  IF tpAmount # NaN /\ ~JsGreater(tpAmount, Whole(0))
             THEN TPOver
             ELSE IF JsLess(ParseFloat(position.unrealizedPL),
                            JsMul(ParseFloat(position.marginSize), Rat(1, 2)))
             THEN TPOver
             ELSE IF JsLess(Whole(0), n)
             THEN [t EXCEPT !.pc = "futuresSubmitPlanOrder", !.data = data,
                            !.n = n, !.percentages = percentages]
             ELSE TPOver

\* part_004:667-676  await restClientV2.getFuturesPosition: a rejection is
\* caught at 749, a code other than '00000' returns.
TP_GetFuturesPosition(c) ==
    /\ c \in DOMAIN tpo.frames
    /\ tpo.frames[c].pc = "getFuturesPosition"
    /\ \/ \E response \in {"throw", "40000"} : SetFrame(c, TPOver)
       \/ SetFrame(c, OnPosition(tpo.frames[c], TPPositionData))
    /\ UNCHANGED <<positions, orders, plans, quote>>

\* part_004:734-745  await restClientV2.futuresSubmitPlanOrder(tpPayload): the
\* order is accepted, refused with an error code, or the call throws; the
\* loop goes on to the next order in each case.
TP_SubmitPlanOrder(c) ==
    /\ c \in DOMAIN tpo.frames
    /\ tpo.frames[c].pc = "futuresSubmitPlanOrder"
    /\ LET f == tpo.frames[c]
           payload == tpPayload(f.data[1], f.n, f.percentages, f.i)
           after(outcome) ==
               [tpo EXCEPT !.frames[c] = IF JsLess(Whole(f.i + 1), f.n)
                                         THEN [f EXCEPT !.i = @ + 1]
                                         ELSE TPOver,
                           !.calls = Append(@, [cycle |-> c,
                                                payload |-> payload,
                                                outcome |-> outcome])]
       IN  \/ /\ plans' = Append(plans, payload)
              /\ SetTP(after("00000"))
           \/ \E outcome \in {"40000", "throw"} :
                 UNCHANGED plans /\ SetTP(after(outcome))
    /\ UNCHANGED <<positions, orders, quote>>

NextTP ==
    \/ TP_Interval
    \/ \E c \in 1..MaxTPCycles : TP_GetFuturesPosition(c)
    \/ \E c \in 1..MaxTPCycles : TP_SubmitPlanOrder(c)

SpecTP == InitTP /\ [][NextTP]_vars

----------------------------------------------------------------------------
(* POST /webhook of the variants with a balance check: the snapshot at the
   head of server.js, whose manageTradingAssets calls functions the script
   does not define, and Testing/MarketCipherBitgetSDK.js.  The request record
   is req's; a handler runs to its next await in one step. *)

BalanceScripts == {"server.js", "Testing/MarketCipherBitgetSDK.js"}

\* The bodies posted: force is required here, leverage is optional, and the
\* size is a number below or above the balances the account may have.
BalanceBodies ==
    [symbol : {Undefined, Str(Ticker)},
     price : {Num("100")},
     size : {Undefined, Rat(1, 1000), Whole(5)},
     orderType : {Str("limit")},
     marginCoin : {Str("USDT")},
     force : {Undefined, Str("gtc")},
     side : {Undefined, Str("buy"), Str("sell")},
     leverage : {Undefined, Str("10")}]

\* balanceResult.data.available: a balance, or a response without the field.
Balances == {Rat(1, 2), Whole(100), Undefined}

\* !(!symbol || !price || !size || !orderType || !marginCoin || !force || !side)
BalanceValidBody(body) ==
    ~(~Truthy(body.symbol) \/ ~Truthy(body.price) \/ ~Truthy(body.size)
      \/ ~Truthy(body.orderType) \/ ~Truthy(body.marginCoin)
      \/ ~Truthy(body.force) \/ ~Truthy(body.side))

\* parseFloat(size) > parseFloat(availableBalance)
ExceedsBalance(size, availableBalance) ==
    JsGreater(ParseFloat(size), ParseFloat(availableBalance))

\* res.status(400).json(...)
Answer400(q, log) == [q EXCEPT !.pc = "done", !.log = log, !.status = 400,
                                !.list = <<>>, !.i = 0]

\* The handler up to its first await: destructure, validate, answer 400 or
\* go on into manageTradingAssets.  In server.js that function's first
\* statement names getFuturesPositions, which the script does not define:
\* the ReferenceError is caught, rethrown and answered with 500.
BW_Post(r) ==
    /\ req[r].pc = "idle"
    /\ \E script \in BalanceScripts, body \in BalanceBodies :
        LET q == [IdleRequest EXCEPT !.script = script, !.body = body,
                                     !.startPos = TickerHoldSides]
        IN  IF ~BalanceValidBody(body) THEN SetReq(r, Answer400(q, <<>>))
            ELSE IF script = "server.js" THEN SetReq(r, Answer500(q, <<>>))
            ELSE SetReq(r, [q EXCEPT !.pc = "bw_getPositions"])
    /\ UNCHANGED <<positions, orders>>

\* closeOpenPositions: getFuturesPositions({productType, marginCoin}), then
\* the loop up to its first await.
BW_GetPositions(r) ==
    LET q == req[r] IN
    /\ q.pc = "bw_getPositions"
    /\ \E res \in Outcomes :
        LET log == Logged(q.log, "getFuturesPositions", 298, res)
            list == PositionsOfCoin(MarginCoin)
            first == NextSymbolPosition(list, 1, q.body.symbol[2])
        IN  IF res = "throw"
            THEN SetReq(r, Answer500(q, log))
            ELSE IF first > Len(list)
            THEN SetReq(r, [q EXCEPT !.pc = "bw_getOpenOrders", !.log = log])
            ELSE SetReq(r, [q EXCEPT !.pc = "bw_close", !.log = log,
                                     !.list = list, !.i = first])
    /\ UNCHANGED <<positions, orders>>

\* One iteration of the loop: flash-close position.holdSide of the symbol;
\* the response is only logged.
BW_FlashClose(r) ==
    LET q == req[r] IN
    /\ q.pc = "bw_close"
    /\ \E res \in Responses :
        LET log == Logged(q.log, "futuresFlashClosePositions", 306, res)
            symbol == q.body.symbol[2]
            next == NextSymbolPosition(q.list, q.i + 1, symbol)
        IN  /\ positions' = IF res = "ok"
                            THEN FlashClosed(symbol, q.list[q.i].holdSide)
                            ELSE positions
            /\ IF res = "throw"
               THEN SetReq(r, Answer500(q, log))
               ELSE IF next > Len(q.list)
               THEN SetReq(r, [q EXCEPT !.pc = "bw_getOpenOrders", !.log = log,
                                        !.list = <<>>, !.i = 0])
               ELSE SetReq(r, [q EXCEPT !.log = log, !.i = next])
    /\ UNCHANGED orders

\* cancelAllOrders: getFuturesOpenOrders, then pendingOrders.length > 0.  The
\* data of the response is the object that holds entrustedList, which has no
\* length, or a list of orders.
BW_GetOpenOrders(r) ==
    LET q == req[r] IN
    /\ q.pc = "bw_getOpenOrders"
    /\ \E res \in Outcomes, shape \in {"object", "array"} :
        LET log == Logged(q.log, "getFuturesOpenOrders", 326, res)
            pendingOrders == IF shape = "array" THEN EntrustedList ELSE <<>>
        IN  IF res = "throw"
            THEN SetReq(r, Answer500(q, log))
            ELSE IF Len(pendingOrders) > 0
            THEN SetReq(r, [q EXCEPT !.pc = "bw_cancel", !.log = log,
                                     !.list = pendingOrders, !.i = 1])
            ELSE SetReq(r, [q EXCEPT !.pc = "bw_balance", !.log = log])
    /\ UNCHANGED <<positions, orders>>

\* One iteration of the loop: futuresCancelOrder({symbol, marginCoin}); where
\* the exchange accepts it, the order of this iteration goes.
BW_CancelOrder(r) ==
    LET q == req[r] IN
    /\ q.pc = "bw_cancel"
    /\ \E res \in Responses :
        LET log == Logged(q.log, "futuresCancelOrder", 333, res)
            side == q.list[q.i].side
        IN  /\ orders' = IF res = "ok" /\ orders[side] > 0
                         THEN [orders EXCEPT ![side] = @ - 1]
                         ELSE orders
            /\ IF res = "throw"
               THEN SetReq(r, Answer500(q, log))
               ELSE IF q.i = Len(q.list)
               THEN SetReq(r, [q EXCEPT !.pc = "bw_balance", !.log = log,
                                        !.list = <<>>, !.i = 0])
               ELSE SetReq(r, [q EXCEPT !.log = log, !.i = @ + 1])
    /\ UNCHANGED positions

\* getFuturesAccountAsset and the balance check: 400 when the size exceeds
\* the available balance, else on to the leverage (if given) or the order.
BW_AccountAsset(r) ==
    LET q == req[r] IN
    /\ q.pc = "bw_balance"
    /\ \E res \in Outcomes, availableBalance \in Balances :
        LET log == Logged(q.log, "getFuturesAccountAsset", 389, res) IN
        IF res = "throw"
        THEN SetReq(r, Answer500(q, log))
        ELSE IF ExceedsBalance(q.body.size, availableBalance)
        THEN SetReq(r, Answer400(q, log))
        ELSE IF Truthy(q.body.leverage)
        THEN SetReq(r, [q EXCEPT !.pc = "bw_setLeverage", !.log = log])
        ELSE SetReq(r, [q EXCEPT !.pc = "bw_submit", !.log = log])
    /\ UNCHANGED <<positions, orders>>

\* setFuturesLeverage: a rejection is answered 500 by its own catch.
BW_SetLeverage(r) ==
    LET q == req[r] IN
    /\ q.pc = "bw_setLeverage"
    /\ \E res \in Responses :
        LET log == Logged(q.log, "setFuturesLeverage", 401, res) IN
        IF res = "throw"
        THEN SetReq(r, Answer500(q, log))
        ELSE SetReq(r, [q EXCEPT !.pc = "bw_submit", !.log = log])
    /\ UNCHANGED <<positions, orders>>

\* futuresSubmitOrder; whatever it resolves with is answered 200.
BW_Submit(r) ==
    LET q == req[r] IN
    /\ q.pc = "bw_submit"
    /\ \E res \in Responses :
        LET log == Logged(q.log, "futuresSubmitOrder", 425, res)
            side == q.body.side[2]
        IN  /\ res = "ok" => orders[side] < MaxOrders
            /\ orders' = IF res = "ok"
                         THEN [orders EXCEPT ![side] = @ + 1]
                         ELSE orders
            /\ IF res = "throw"
               THEN SetReq(r, Answer500(q, log))
               ELSE SetReq(r, [q EXCEPT !.pc = "done", !.log = log,
                                        !.status = 200])
    /\ UNCHANGED positions

\* An assumption on the clients, not a guard of the handler: requests arrive
\* one after another.  express calls the handler for every request (BW_Post).
BW_PostAlone(r) ==
    /\ \A o \in Cycles \ {r} : req[o].pc = "idle"
    /\ BW_Post(r)

NextBalance ==
    \/ \E r \in Cycles : BW_PostAlone(r)
    \/ \E r \in Cycles : BW_GetPositions(r)
    \/ \E r \in Cycles : BW_FlashClose(r)
    \/ \E r \in Cycles : BW_GetOpenOrders(r)
    \/ \E r \in Cycles : BW_CancelOrder(r)
    \/ \E r \in Cycles : BW_AccountAsset(r)
    \/ \E r \in Cycles : BW_SetLeverage(r)
    \/ \E r \in Cycles : BW_Submit(r)
    \/ \E r \in Cycles : RequestEnd(r)

SpecBalance == Init /\ [][NextBalance]_vars

----------------------------------------------------------------------------
(* C21, C24: which positions the close passes of the variants close *)

EntriesOf(log, call) == {j \in DOMAIN log : log[j].call = call}

\* The graceful attempt failed: an error response, or a thrown error.
GracefulFailed(entry) == entry.outcome \in {CodeFailure.text, "throw"}

\* C21: in the webhook variant with graceful close (server.js, part_003), once
\* closeOpenPositions is over, every flash close was preceded by a graceful
\* futuresClosePositions for the same position, and a position's graceful
\* attempt is followed by a flash close if and only if the attempt failed by
\* an error response or a thrown error.
C21_FlashIffGracefulFailed ==
    (closer.script \in GracefulScripts /\ closer.result # "none") =>
        /\ \A f \in EntriesOf(closer.log, "futuresFlashClosePositions") :
              \E g \in EntriesOf(closer.log, "futuresClosePositions") :
                  g < f /\ closer.log[g].i = closer.log[f].i
        /\ \A g \in EntriesOf(closer.log, "futuresClosePositions") :
              (\E f \in EntriesOf(closer.log, "futuresFlashClosePositions") :
                  closer.log[f].i = closer.log[g].i)
              <=> GracefulFailed(closer.log[g])

\* C24: in part_000, every close call that closeOpposingPositions causes names
\* a position of the signal's symbol held on the opposing side; same-side
\* positions and positions of other symbols receive no close call.
C24_ClosesOnlyOpposing ==
    closer.script = "part_000" =>
        \A f \in EntriesOf(closer.log, "futuresFlashClosePositions") :
            /\ closer.log[f].target.symbol = Ticker
            /\ closer.log[f].target.holdSide = OpposingSide(closer.side)

----------------------------------------------------------------------------
(* C22, C25, C26: what one firing of a signal consumer sends on *)

FailedCall(call) == call.outcome \in {"notOk", "throw", "raised"}

\* C22: one candle update event or one timer cycle makes at most one webhook
\* POST (the ws handler) or one placeTrade call (the timer loops); where the
\* evaluator's record decides, the side is buy whenever buySignal is set and
\* sell only for a sell signal without it; and after a failed POST or a
\* failed placeTrade nothing is sent again: the firing is over, or is only
\* reading the body of the answer it logs.
C22_SignalConsumedAtMostOnce ==
    /\ Len(tick.calls) <= 1
    /\ \A j \in DOMAIN tick.calls :
        /\ tick.calls[j].call = IF tick.script = WsScript THEN "sendWebhook" ELSE "placeTrade"
        /\ tick.script # "part_004" =>
              /\ tick.signals.buySignal \/ tick.signals.sellSignal
              /\ tick.calls[j].side = IF tick.signals.buySignal THEN "buy" ELSE "sell"
        /\ FailedCall(tick.calls[j]) => tick.pc \in {"responseText", "done"}

\* A candle update gave a buy signal, the POST was answered with an error
\* status, and the handler is over.
C22_Witness ==
    /\ tick.script = WsScript
    /\ tick.pc = "done"
    /\ tick.signals.buySignal
    /\ Len(tick.calls) = 1
    /\ tick.calls[1].side = "buy"
    /\ tick.calls[1].outcome = "notOk"

\* The candles of a timeframe came and the evaluator finds a signal in them.
SignalSeen(t, timeframe) ==
    \E j \in DOMAIN t.seen :
        /\ t.seen[j].timeframe = timeframe
        /\ t.seen[j].candles
        /\ t.seen[j].signals.error = "none"
        /\ t.seen[j].signals.buySignal \/ t.seen[j].signals.sellSignal

\* C25: in MASTER.js's loop a timeframe without candles is the only thing
\* skipped: the callback still goes through all four timeframes, and when the
\* 15m candles it fetched hold a signal it still calls placeTrade.
C25_OnlyThatTimeframeSkipped ==
    (tick.script = "MASTER.js" /\ tick.pc = "done") =>
        /\ Len(tick.seen) = Len(Timeframes("MASTER.js"))
        /\ SignalSeen(tick, "15m") => Len(tick.calls) = 1

\* Some timeframe whose candles came gave this signal.
GaveSignal(t, side) ==
    \E j \in DOMAIN t.seen :
        /\ t.seen[j].candles
        /\ t.seen[j].signals.error = "none"
        /\ IF side = "buy" THEN t.seen[j].signals.buySignal
                           ELSE t.seen[j].signals.sellSignal

\* Every timeframe has been gone through and no evaluation threw.
AllTimeframesDone(t) ==
    /\ Len(t.seen) = Len(Timeframes(t.script))
    /\ \A j \in DOMAIN t.seen : t.seen[j].signals.error = "none"

\* C26: a cycle of part_004's loop calls placeTrade at most once; with a side
\* only if some fetched timeframe gave that signal and none gave the other
\* one; not at all if the timeframes disagree or every fetch failed; and once
\* all timeframes are through, a signal of one side alone does lead to
\* placeTrade, whichever other fetches failed.
C26_MultiTimeframeTrade ==
    tick.script = "part_004" =>
        /\ Len(tick.calls) <= 1
        /\ \A j \in DOMAIN tick.calls :
              /\ tick.calls[j].call = "placeTrade"
              /\ GaveSignal(tick, tick.calls[j].side)
              /\ ~GaveSignal(tick, OtherSide(tick.calls[j].side))
        /\ (tick.pc = "done" /\ GaveSignal(tick, "buy") /\ GaveSignal(tick, "sell"))
              => tick.calls = <<>>
        /\ (tick.pc = "done" /\ \A j \in DOMAIN tick.seen : ~tick.seen[j].candles)
              => tick.calls = <<>>
        /\ \A side \in Sides :
              (/\ tick.pc = "done"
               /\ AllTimeframesDone(tick)
               /\ GaveSignal(tick, side)
               /\ ~GaveSignal(tick, OtherSide(side)))
              => (Len(tick.calls) = 1 /\ tick.calls[1].side = side)

\* The 5m fetch failed, a later timeframe gave a buy signal, none a sell
\* signal, and the cycle ended with its one buy order placed.
C26_Witness ==
    /\ tick.script = "part_004"
    /\ tick.pc = "done"
    /\ Len(tick.seen) = Len(Timeframes("part_004"))
    /\ ~tick.seen[1].candles
    /\ GaveSignal(tick, "buy")
    /\ Len(tick.calls) = 1
    /\ tick.calls[1].side = "buy"
    /\ tick.calls[1].outcome = "placed"

----------------------------------------------------------------------------
(* C23: start-up without credentials *)

CredentialNames == {"API_KEY", "API_SECRET", "API_PASSPHRASE"}

CredentialAbsent(env) == \E name \in CredentialNames : env[name] = Undefined

TotalCalls(b) == b.calls["startup"] + b.calls["tradingLoop"] + b.calls["pnl"]

\* C23: when API_KEY, API_SECRET or API_PASSPHRASE is absent, loading the
\* script ends in process.exit(1) with no exchange client constructed, no
\* timer or callback armed and the HTTP server not listening, and no exchange
\* call is ever made in that run.
C23_NoCredentialsNoRun ==
    (boot.pc \notin {"none", "loading"} /\ CredentialAbsent(boot.env)) =>
        /\ boot.pc = "exited"
        /\ boot.exitCode = 1
        /\ boot.clients = {}
        /\ boot.timers = {}
        /\ boot.listening = "none"
        /\ TotalCalls(boot) = 0

\* The script was started with API_KEY and API_PASSPHRASE set and API_SECRET
\* absent, and has exited.
C23_Witness ==
    /\ boot.pc = "exited"
    /\ boot.env.API_KEY = Str("set")
    /\ boot.env.API_PASSPHRASE = Str("set")
    /\ boot.env.API_SECRET = Undefined

----------------------------------------------------------------------------
(* C27-C30: the break-even stop-loss adjusters *)

PositionOpen == Position(Ticker, "long") \in positions

\* C27: in part_001, while the symbol's position stays open the exchange
\* accepts at most one break-even stop-loss order (futuresSubmitTPSLOrder
\* answered '00000'), however the polls, the delayed timers and the
\* responses interleave.
C27_OneBreakEvenSubmit ==
    (be.script = "part_001" /\ PositionOpen) => be.accepted <= 1

\* The timer was armed on a position in profit with a break-even price, with
\* an initial stop-loss among the plan orders read and no pos_loss order
\* among them already at the break-even price, to one decimal.
ArmedAsClaimed(s) ==
    /\ JsGreater(s.position.unrealizedPL, Whole(0))
    /\ Truthy(s.position.breakEvenPrice)
    /\ \E j \in DOMAIN s.list : s.list[j].planType = "loss_plan"
    /\ ~\E j \in DOMAIN s.list :
          /\ s.list[j].planType = "pos_loss"
          /\ ToFixed1(s.list[j].triggerPrice) = ToFixed1(s.position.breakEvenPrice)

\* C28: in part_004 a delayed break-even stop-loss is armed for a position
\* only if it is in profit with a break-even price, a 'loss_plan' order
\* exists for the symbol and no existing 'pos_loss' order already has the
\* break-even price as its trigger price.
C28_ScheduledOnlyWhen ==
    be.script = "part_004" =>
        \A n \in DOMAIN be.scheduled : ArmedAsClaimed(be.scheduled[n])

\* C29: in part_004 an open position that had its initial stop-loss plan
\* order keeps at least one active stop-loss plan order at every moment of
\* the break-even adjustment.
C29_StopLossKept ==
    (be.script = "part_004" /\ PositionOpen /\ be.hadInitial) => HasStopLoss(plans)

PendingTimers(b) == {n \in DOMAIN b.timers : b.timers[n].phase = "pending"}

\* C30: in part_004 at most one delayed break-even submission is pending for
\* the position at any time: no poll arms a timer while an earlier one has
\* not yet fired.
C30_OneTimerPending ==
    be.script = "part_004" => Cardinality(PendingTimers(be)) <= 1

----------------------------------------------------------------------------
(* C31: what a break-even submit carries when its timer fires *)

\* C31: a break-even stop-loss order is submitted only for a position that is
\* still open when the timer fires, and with the size and the break-even
\* price (to one decimal) that the position has at that moment.
C31_SubmitForPositionAsItIs ==
    \A j \in DOMAIN be.fired :
        /\ Len(be.fired[j].data) > 0
        /\ be.fired[j].payload.size = be.fired[j].data[1].available
        /\ be.fired[j].payload.triggerPrice
              = ToFixed1(be.fired[j].data[1].breakEvenPrice)

----------------------------------------------------------------------------
(* C32, C33: how many take-profit orders the monitor places, and of what size *)

\* The submits of one calculateTPOrders invocation.
CallsOfCycle(c) == {j \in DOMAIN tpo.calls : tpo.calls[j].cycle = c}

\* The position is missing, its available size is not positive, or its PnL
\* is below half of the margin.
NothingToPlace ==
    \/ TPPositionData = <<>>
    \/ ~JsGreater(ParseFloat(quote.available), Whole(0))
    \/ JsLess(ParseFloat(quote.unrealizedPL), JsMul(quote.marginSize, Rat(1, 2)))

\* The number of PnL thresholds (50% and 150% of the margin) reached.
ThresholdsReached ==
    Cardinality({f \in {Rat(1, 2), Rat(3, 2)} :
        JsAtLeast(ParseFloat(quote.unrealizedPL), JsMul(quote.marginSize, f))})

\* floor(available / 0.001) for a positive size.
SizeSteps == (quote.available[2] * 1000) \div quote.available[3]

\* C32: one calculateTPOrders invocation places no take-profit order when the
\* position is missing, its available size is not positive or the PnL is
\* below 50% of the margin; otherwise at most min(3, floor(available/0.001),
\* k) orders, k the number of thresholds reached (1 or 2 for a PnL that is a
\* number), each on the side opposite to holdSide.
C32_TakeProfitOrderCount ==
    Len(tpo.frames) > 0 =>
        \A c \in DOMAIN tpo.frames :
            IF NothingToPlace THEN CallsOfCycle(c) = {}
            ELSE /\ Cardinality(CallsOfCycle(c)) <= Min({3, SizeSteps, ThresholdsReached})
                 /\ IsRat(quote.unrealizedPL) => ThresholdsReached \in {1, 2}
                 /\ \A j \in CallsOfCycle(c) :
                       /\ tpo.calls[j].payload.side \in Sides
                       /\ Position(Ticker, OpposingSide(tpo.calls[j].payload.side))
                             \in positions

\* An invocation is over for a long position of one size step whose PnL has
\* reached both thresholds: one sell order was placed.
C32_Witness ==
    /\ Len(tpo.frames) = 1
    /\ tpo.frames[1].pc = "over"
    /\ Position(Ticker, "long") \in positions
    /\ quote.available = Rat(1, 1000)
    /\ ThresholdsReached = 2
    /\ Len(tpo.calls) = 1
    /\ tpo.calls[1].payload.side = "sell"
    /\ tpo.calls[1].outcome = "00000"

\* C33: over the monitoring cycles on one unchanged position, the sizes of
\* the take-profit plan orders submitted add up to no more than the
\* position's available size.
C33_TotalWithinAvailable ==
    TPPositionData # <<>> =>
        ~JsGreater(Sum([j \in DOMAIN tpo.calls |-> tpo.calls[j].payload.size]),
                   quote.available)

----------------------------------------------------------------------------
(* C34: what a request answered with 400 has done on the exchange *)

MutatingCalls ==
    {"futuresFlashClosePositions", "futuresCancelOrder", "setFuturesLeverage",
     "futuresSubmitOrder"}

\* C34: in the webhook variant with a balance check, a request answered with
\* 400 has made no call that changes the exchange: no close, no cancel, no
\* leverage setting, no order.
C34_NoMutationBefore400 ==
    \A r \in Cycles :
        (req[r].script \in BalanceScripts /\ req[r].status = 400) =>
            \A j \in DOMAIN req[r].log : req[r].log[j][1] \notin MutatingCalls

============================================================================
